---------------------------- MODULE Spec2Model ----------------------------
(***************************************************************************)
(* State-machine model of the MdnsScanner class (src/unnamed/part_000):    *)
(* the query scheduler, the waiter registry, the record caches, the        *)
(* message correlator and the public discovery calls.                      *)
(*                                                                         *)
(* Conventions                                                             *)
(*  - DNS names are sequences of labels; String.endsWith on a name is a    *)
(*    suffix test on the labels.                                           *)
(*  - JavaScript Maps are sequences of entries in insertion order where    *)
(*    the iteration order is observable (active queries, commissionable    *)
(*    cache, address maps) and functions with a dynamic domain where it is *)
(*    not (waiter registry, operational cache).                            *)
(*  - The mutable fields of the scanner are threaded through the helper    *)
(*    operators as one record s (see Cur); an action computes the record   *)
(*    after the whole handler has run and assigns it with Commit.          *)
(*  - A resolved promise's continuation is a microtask: while a call is in *)
(*    pc "resolved" only Resume steps are enabled.                         *)
(*  - Time is counted in seconds; record TTLs are kept in seconds as well  *)
(*    (the code multiplies by 1000 and compares with milliseconds).        *)
(*  - Timers are armed/not armed; an armed timer may fire at any later     *)
(*    step.                                                                *)
(***************************************************************************)
EXTENDS Integers, Sequences, FiniteSets, TLC

VARIABLES
    activeAnnounceQueries,        \* Map queryId -> {queries, answers}
    queryTimer,                   \* [armed, delay]: the single #queryTimer
    nextAnnounceIntervalSeconds,  \* in tenths of a second
    operationalDeviceRecords,     \* Map matterName -> device
    commissionableDeviceRecords,  \* Map instance name -> device (ordered)
    recordWaiters,                \* Map queryId -> waiter
    waiterTimers,                 \* calls whose "MDNS timeout" timer is armed
    periodicTimer,                \* BOOLEAN: "Discovered node expiration" armed
    closing,                      \* #closing
    closePc,                      \* position of close(): idle / awaiting / closed
    calls,                        \* the public discovery calls made so far
    now,                          \* Time.nowMs(), in seconds
    sent,                         \* number of datagrams handed to transport.send
    inFlight,                     \* #sendQueries invocations suspended in "await send"
    enableIpv4                    \* #enableIpv4 (fixed at construction)

vars == << activeAnnounceQueries, queryTimer, nextAnnounceIntervalSeconds,
           operationalDeviceRecords, commissionableDeviceRecords, recordWaiters,
           waiterTimers, periodicTimer, closing, closePc, calls, now, sent,
           inFlight, enableIpv4 >>

---------------------------------------------------------------------------
(* Bounds of the model *)

\* public discovery calls made in one run
MaxCalls == 2
\* datagrams sent in one run
MaxSent == 2
\* the clock runs from 0 to MaxTime
MaxTime == 1
\* broadcasts of one run where the back-off of the query timer is followed
\* up to its cap
MaxBroadcasts == 14
\* known answers of the active query where broadcasts are assembled from
\* drawn inputs
MaxAnswers == 3

\* the addresses a cached device has at most
MaxAddresses == 4

---------------------------------------------------------------------------
(* Program constants *)

\* 1.5 s, in tenths of a second
START_ANNOUNCE_INTERVAL_SECONDS == 15
\* 60 * 60 s, in tenths of a second
MAX_ANNOUNCE_INTERVAL_SECONDS == 36000
\* MAX_MDNS_MESSAGE_SIZE, in bytes
MAX_MDNS_MESSAGE_SIZE == 1500

\* JavaScript's undefined, for numeric fields
undefined == 0 - 1
\* JavaScript's NaN
NaN == 0 - 2

MATTER_SERVICE_QNAME == << "_matter", "_tcp", "local" >>
MATTER_COMMISSION_SERVICE_QNAME == << "_matterc", "_udp", "local" >>

---------------------------------------------------------------------------
(* Generic helpers *)

\* Math.min that lets its first argument through (C12 is checked against it)
MinUncapped(a, b) == a

Min(a, b) == IF a < b THEN a ELSE b

\* String.endsWith, on label sequences
EndsWith(name, suffix) ==
    /\ Len(name) >= Len(suffix)
    /\ SubSeq(name, Len(name) - Len(suffix) + 1, Len(name)) = suffix

\* Array.find: the first of the indices at which the test holds (indices is
\* the set of those), 0 when there is none
FindIndex(indices) ==
    IF indices = {} THEN 0
    ELSE CHOOSE i \in indices : \A j \in indices : i <= j

\* the sequence without its i-th element
RemoveAt(seq, i) == SubSeq(seq, 1, i - 1) \o SubSeq(seq, i + 1, Len(seq))

\* a function without the key k (Map.delete on an unordered map)
Without(f, k) == [x \in (DOMAIN f) \ {k} |-> f[x]]

\* Map.set on an unordered map
With(f, k, v) == [x \in (DOMAIN f) \cup {k} |-> IF x = k THEN v ELSE f[x]]

\* Map.set on an ordered map of [key, val] entries: an existing key keeps
\* its position, a new key is appended
MapIndex(m, k) == FindIndex({ i \in 1..Len(m) : m[i].key = k })
MapHas(m, k) == MapIndex(m, k) # 0
MapGet(m, k) == m[MapIndex(m, k)].val
MapSet(m, k, v) ==
    IF MapHas(m, k)
    THEN [m EXCEPT ![MapIndex(m, k)] = [key |-> k, val |-> v]]
    ELSE Append(m, [key |-> k, val |-> v])
MapDelete(m, k) == IF MapHas(m, k) THEN RemoveAt(m, MapIndex(m, k)) ELSE m
MapValues(m) == [i \in 1..Len(m) |-> m[i].val]

---------------------------------------------------------------------------
(* DNS records and messages (the codec's decoded form) *)

\* One shape for every record type; the fields a type does not use are empty.
\* txt is the TXT value: a sequence of items [key, val], val a sequence of
\* integers (<<n>> for "key=n", <<v, p>> for "VP=v+p", <<NaN>> for a value
\* parseInt rejects).
\* len is the length in bytes of the record as DnsCodec.encodeRecord encodes it.
DnsRecord(name, recordType, ttl, target, port, ip, txt, len) ==
    [name |-> name, recordType |-> recordType, ttl |-> ttl,
     target |-> target, port |-> port, ip |-> ip, txt |-> txt, len |-> len]

TxtRecord(name, ttl, txt) == DnsRecord(name, "TXT", ttl, << >>, 0, "", txt, 100)
\* a TXT record that nearly fills a datagram together with two queries
LargeTxtRecord(name, ttl, txt) == DnsRecord(name, "TXT", ttl, << >>, 0, "", txt, 1400)
SrvRecord(name, ttl, target, port) == DnsRecord(name, "SRV", ttl, target, port, "", << >>, 60)
AaaaRecord(name, ttl, ip) == DnsRecord(name, "AAAA", ttl, << >>, 0, ip, << >>, 40)
ARecord(name, ttl, ip) == DnsRecord(name, "A", ttl, << >>, 0, ip, << >>, 28)

\* DnsCodec.encodeRecord(record).length
EncodedRecordLength(record) == record.len
\* DnsCodec.encode(message).length for a message without answers: the
\* 12-byte header and the encoded queries
EncodedEmptyMessageLength(queries) == 12 + 30 * Len(queries)
\* DnsCodec.encode(message).length: the header, the queries and the answers
RECURSIVE EncodedRecordsLength(_)
EncodedRecordsLength(records) ==
    IF Len(records) = 0 THEN 0
    ELSE EncodedRecordLength(Head(records)) + EncodedRecordsLength(Tail(records))

EncodedMessageLength(message) ==
    EncodedEmptyMessageLength(message.queries) + EncodedRecordsLength(message.answers)

DnsQuery(name, recordType) == [name |-> name, recordType |-> recordType, recordClass |-> "IN"]

\* an IP address as cached: the literal and the %interface suffix ("" if none)
Ip(lit, scope) == [lit |-> lit, scope |-> scope]

\* the IP literals of the model and what the string tests of the code say of them
IPv6Literals == { "fe80::1", "fe80::2", "fd00::1", "fd00::2", "2001::1", "2001::2" }
IPv4Literals == { "10.0.0.1", "10.0.0.2" }
isIPv6(lit) == lit \in IPv6Literals
StartsWithFe80ColonColon(lit) == lit \in { "fe80::1", "fe80::2" }
StartsWithFe80Colon(lit) == lit \in { "fe80::1", "fe80::2" }
StartsWithFd(lit) == lit \in { "fd00::1", "fd00::2" }


---------------------------------------------------------------------------
(* The scanner's mutable fields as one record *)

Cur ==
    [aq |-> activeAnnounceQueries, qt |-> queryTimer, ni |-> nextAnnounceIntervalSeconds,
     op |-> operationalDeviceRecords, comm |-> commissionableDeviceRecords,
     rw |-> recordWaiters, wt |-> waiterTimers, calls |-> calls]

Commit(s) ==
    /\ activeAnnounceQueries' = s.aq
    /\ queryTimer' = s.qt
    /\ nextAnnounceIntervalSeconds' = s.ni
    /\ operationalDeviceRecords' = s.op
    /\ commissionableDeviceRecords' = s.comm
    /\ recordWaiters' = s.rw
    /\ waiterTimers' = s.wt
    /\ calls' = s.calls

\* #queryTimer: whether the timer it refers to is armed and with what
\* delay; others counts the "MDNS discovery" timers that are armed although
\* #queryTimer refers to a later one.  A timer that is not running, and
\* Time.getTimer(..., delay, ...).start() with no earlier timer:
StoppedTimer == [armed |-> FALSE, delay |-> 0, others |-> 0]
StartedTimer(delay) == [armed |-> TRUE, delay |-> delay, others |-> 0]

\* this.#queryTimer?.stop()
stopTimer(timer) == [timer EXCEPT !.armed = FALSE, !.delay = 0]
\* this.#queryTimer = Time.getTimer("MDNS discovery", delay, ...).start()
startTimer(timer, delay) ==
    [armed |-> TRUE, delay |-> delay,
     others |-> IF timer.armed THEN timer.others + 1 ELSE timer.others]

---------------------------------------------------------------------------
(* Query scheduler *)

SameQuery(a, b) ==
    a.name = b.name /\ a.recordType = b.recordType /\ a.recordClass = b.recordClass

\* the tail of #setQueryRecords without "this.#queryTimer?.stop()" (C28 is
\* checked against it)
InstallQueryWithoutStop(s, queryId, queries, answers) ==
    [s EXCEPT !.aq = MapSet(s.aq, queryId, [queries |-> queries, answers |-> answers]),
              !.qt = startTimer(s.qt, 0),
              !.ni = START_ANNOUNCE_INTERVAL_SECONDS]

\* the tail of #setQueryRecords: store the entry, reset the interval and arm
\* the timer for an immediate broadcast
InstallQuery(s, queryId, queries, answers) ==
    [s EXCEPT !.aq = MapSet(s.aq, queryId, [queries |-> queries, answers |-> answers]),
              !.qt = startTimer(stopTimer(s.qt), 0),
              !.ni = START_ANNOUNCE_INTERVAL_SECONDS]

\* #setQueryRecords without the return for "no new query records": the
\* entry is stored again and the broadcast restarted (C26 is checked
\* against it)
setQueryRecordsAlways(s, queryId, queries, answers) ==
    IF MapHas(s.aq, queryId)
    THEN LET activeExistingQuery == MapGet(s.aq, queryId)
             existingQueries == activeExistingQuery.queries
             newQueries ==
                 SelectSeq(queries, LAMBDA query :
                     ~\E i \in 1..Len(existingQueries) : SameQuery(existingQueries[i], query))
         IN  InstallQuery(s, queryId, newQueries \o existingQueries,
                          activeExistingQuery.answers \o answers)
    ELSE InstallQuery(s, queryId, queries, answers)

\* #setQueryRecords storing the passed queries in place of the entry's
\* ("the query is overwritten"; C27 is checked against it)
setQueryRecordsOverwriting(s, queryId, queries, answers) ==
    IF MapHas(s.aq, queryId)
    THEN LET activeExistingQuery == MapGet(s.aq, queryId)
             existingQueries == activeExistingQuery.queries
             newQueries ==
                 SelectSeq(queries, LAMBDA query :
                     ~\E i \in 1..Len(existingQueries) : SameQuery(existingQueries[i], query))
         IN  IF Len(newQueries) = 0
             THEN s
             ELSE InstallQuery(s, queryId, queries, activeExistingQuery.answers \o answers)
    ELSE InstallQuery(s, queryId, queries, answers)

setQueryRecords(s, queryId, queries, answers) ==
    IF MapHas(s.aq, queryId)
    THEN LET activeExistingQuery == MapGet(s.aq, queryId)
             existingQueries == activeExistingQuery.queries
             newQueries ==
                 SelectSeq(queries, LAMBDA query :
                     ~\E i \in 1..Len(existingQueries) : SameQuery(existingQueries[i], query))
         IN  IF Len(newQueries) = 0
             THEN s
             ELSE InstallQuery(s, queryId, newQueries \o existingQueries,
                               activeExistingQuery.answers \o answers)
    ELSE InstallQuery(s, queryId, queries, answers)

RECURSIVE FlatAnswers(_)
FlatAnswers(aq) ==
    IF Len(aq) = 0 THEN << >> ELSE Head(aq).val.answers \o FlatAnswers(Tail(aq))

RECURSIVE FlatQueries(_)
FlatQueries(aq) ==
    IF Len(aq) = 0 THEN << >> ELSE Head(aq).val.queries \o FlatQueries(Tail(aq))


getActiveQueryEarlierAnswers(s) == FlatAnswers(s.aq)

\* #removeQuery leaving the query timer running (C5 is checked against it)
removeQueryKeepingTimer(s, queryId) ==
    [s EXCEPT !.aq = MapDelete(s.aq, queryId)]


removeQuery(s, queryId) ==
    LET aq2 == MapDelete(s.aq, queryId)
    IN  IF Len(aq2) = 0
        THEN [s EXCEPT !.aq = aq2, !.qt = stopTimer(s.qt),
                       !.ni = START_ANNOUNCE_INTERVAL_SECONDS]
        ELSE [s EXCEPT !.aq = aq2]

---------------------------------------------------------------------------
(* Address sorter *)

\* a comparator that tests "fe80:" before "fd", as the comment above
\* #sortServerEntries words it (C20 is checked against it)
CompareServerEntriesLinkLocalFirst(a, b) ==
    LET aIsIPv6 == isIPv6(a.ip.lit)
        bIsIPv6 == isIPv6(b.ip.lit)
    IN  IF aIsIPv6 /\ ~bIsIPv6 THEN 0 - 1
        ELSE IF ~aIsIPv6 /\ bIsIPv6 THEN 1
        ELSE IF aIsIPv6 /\ bIsIPv6
             THEN IF StartsWithFe80Colon(a.ip.lit) /\ ~StartsWithFe80Colon(b.ip.lit) THEN 0 - 1
                  ELSE IF ~StartsWithFe80Colon(a.ip.lit) /\ StartsWithFe80Colon(b.ip.lit) THEN 1
                  ELSE IF StartsWithFd(a.ip.lit) /\ ~StartsWithFd(b.ip.lit) THEN 0 - 1
                  ELSE IF ~StartsWithFd(a.ip.lit) /\ StartsWithFd(b.ip.lit) THEN 1
                  ELSE 0
        ELSE 0

\* the comparator of #sortServerEntries: negative, 0 or positive
CompareServerEntries(a, b) ==
    LET aIsIPv6 == isIPv6(a.ip.lit)
        bIsIPv6 == isIPv6(b.ip.lit)
    IN  IF aIsIPv6 /\ ~bIsIPv6 THEN 0 - 1
        ELSE IF ~aIsIPv6 /\ bIsIPv6 THEN 1
        ELSE IF aIsIPv6 /\ bIsIPv6
             THEN IF StartsWithFd(a.ip.lit) /\ ~StartsWithFd(b.ip.lit) THEN 0 - 1
                  ELSE IF ~StartsWithFd(a.ip.lit) /\ StartsWithFd(b.ip.lit) THEN 1
                  ELSE IF StartsWithFe80Colon(a.ip.lit) /\ ~StartsWithFe80Colon(b.ip.lit) THEN 0 - 1
                  ELSE IF ~StartsWithFe80Colon(a.ip.lit) /\ StartsWithFe80Colon(b.ip.lit) THEN 1
                  ELSE 0
        ELSE 0

\* Array.prototype.sort is stable: insert e after the last element that
\* does not compare greater than it
RECURSIVE InsertSorted(_, _)
InsertSorted(sorted, e) ==
    IF Len(sorted) = 0 THEN << e >>
    ELSE IF CompareServerEntries(sorted[Len(sorted)], e) > 0
         THEN Append(InsertSorted(SubSeq(sorted, 1, Len(sorted) - 1), e), sorted[Len(sorted)])
         ELSE Append(sorted, e)

RECURSIVE sortServerEntries(_)
sortServerEntries(entries) ==
    IF Len(entries) = 0 THEN << >>
    ELSE InsertSorted(sortServerEntries(SubSeq(entries, 1, Len(entries) - 1)),
                      entries[Len(entries)])

\* .map(({ ip, port }) => ({ ip, port, type: "udp" }))
ServerAddresses(addresses) ==
    LET sorted == sortServerEntries(MapValues(addresses))
    IN  [i \in 1..Len(sorted) |-> [ip |-> sorted[i].ip, port |-> sorted[i].port]]

---------------------------------------------------------------------------
(* Waiter registry *)

\* #registerWaiterPromise up to its await: the promise is the one call c
\* awaits; the timer, when there is one, is call c's timer.  A waiter already
\* registered under queryId is overwritten; its timer is not stopped.
registerWaiterPromise(s, c, queryId, timeoutSeconds, resolveOnUpdatedRecords) ==
    [s EXCEPT !.rw = With(s.rw, queryId,
                          [promise |-> c,
                           timer |-> timeoutSeconds # undefined,
                           resolveOnUpdatedRecords |-> resolveOnUpdatedRecords]),
              !.wt = IF timeoutSeconds # undefined THEN s.wt \cup {c} ELSE s.wt,
              !.calls[c].pc = "waiting"]

\* #finishWaiter without "if (isUpdatedRecord && !resolveOnUpdatedRecords)
\* return" (C25 is checked against it)
finishWaiterAlsoOnUpdates(s, queryId, resolvePromise, isUpdatedRecord) ==
    IF queryId \notin DOMAIN s.rw THEN s
    ELSE LET waiter == s.rw[queryId]
         IN  [s EXCEPT !.wt = IF waiter.timer THEN s.wt \ {waiter.promise} ELSE s.wt,
                       !.calls[waiter.promise].pc =
                           IF resolvePromise THEN "resolved" ELSE @,
                       !.rw = Without(s.rw, queryId)]

finishWaiter(s, queryId, resolvePromise, isUpdatedRecord) ==
    IF queryId \notin DOMAIN s.rw THEN s
    ELSE LET waiter == s.rw[queryId]
         IN  IF isUpdatedRecord /\ ~waiter.resolveOnUpdatedRecords THEN s
             ELSE [s EXCEPT !.wt = IF waiter.timer THEN s.wt \ {waiter.promise} ELSE s.wt,
                            !.calls[waiter.promise].pc =
                                IF resolvePromise THEN "resolved" ELSE @,
                            !.rw = Without(s.rw, queryId)]

hasWaiter(s, queryId) == queryId \in DOMAIN s.rw


---------------------------------------------------------------------------
(* Identifiers of commissionable devices and the query ids built from them *)

\* A CommissionableDeviceIdentifiers object: keys is the set of properties
\* the object has ("x" in identifier); the other fields give their values.
Identifier(keys, instanceId, longDiscriminator, shortDiscriminator, vendorId, productId, deviceType) ==
    [keys |-> keys, instanceId |-> instanceId, longDiscriminator |-> longDiscriminator,
     shortDiscriminator |-> shortDiscriminator, vendorId |-> vendorId,
     productId |-> productId, deviceType |-> deviceType]

NoIdentifier == Identifier({}, "", undefined, undefined, undefined, undefined, undefined)
InstanceIdentifier(id) == [NoIdentifier EXCEPT !.keys = {"instanceId"}, !.instanceId = id]
LongDiscriminatorIdentifier(d) ==
    [NoIdentifier EXCEPT !.keys = {"longDiscriminator"}, !.longDiscriminator = d]
ShortDiscriminatorIdentifier(sd) ==
    [NoIdentifier EXCEPT !.keys = {"shortDiscriminator"}, !.shortDiscriminator = sd]
VendorProductIdentifier(v, p) ==
    [NoIdentifier EXCEPT !.keys = {"vendorId", "productId"}, !.vendorId = v, !.productId = p]
VendorIdentifier(v) == [NoIdentifier EXCEPT !.keys = {"vendorId"}, !.vendorId = v]
DeviceTypeIdentifier(dt) == [NoIdentifier EXCEPT !.keys = {"deviceType"}, !.deviceType = dt]
ProductIdentifier(p) == [NoIdentifier EXCEPT !.keys = {"productId"}, !.productId = p]

\* A query id is a string in the code: a DNS name (the operational instance
\* name, a commissionable instance or sub-service name) or one of the custom
\* keys "_VP<v>+<p>" and "_P<p>".  Here it is the sequence of its labels.
SubServiceQname(label) == << label, "_sub" >> \o MATTER_COMMISSION_SERVICE_QNAME

getDeviceInstanceQname(instanceId) == << instanceId >> \o MATTER_COMMISSION_SERVICE_QNAME
getLongDiscriminatorQname(d) == SubServiceQname("_L" \o ToString(d))
getShortDiscriminatorQname(sd) == SubServiceQname("_S" \o ToString(sd))
getVendorQname(v) == SubServiceQname("_V" \o ToString(v))
getDeviceTypeQname(dt) == SubServiceQname("_T" \o ToString(dt))
getCommissioningModeQname == SubServiceQname("_CM")

buildCommissionableQueryIdentifier(identifier) ==
    IF "instanceId" \in identifier.keys
    THEN getDeviceInstanceQname(identifier.instanceId)
    ELSE IF "longDiscriminator" \in identifier.keys
    THEN getLongDiscriminatorQname(identifier.longDiscriminator)
    ELSE IF "shortDiscriminator" \in identifier.keys
    THEN getShortDiscriminatorQname(identifier.shortDiscriminator)
    ELSE IF "vendorId" \in identifier.keys /\ "productId" \in identifier.keys
    THEN << "_VP" \o ToString(identifier.vendorId) \o "+" \o ToString(identifier.productId) >>
    ELSE IF "vendorId" \in identifier.keys
    THEN getVendorQname(identifier.vendorId)
    ELSE IF "deviceType" \in identifier.keys
    THEN getDeviceTypeQname(identifier.deviceType)
    ELSE IF "productId" \in identifier.keys
    THEN << "_P" \o ToString(identifier.productId) >>
    ELSE getCommissioningModeQname

\* the label before the first "." ; a name without "." is returned whole
\* (the empty name, passed as "", is the empty sequence here)
extractInstanceId(instanceName) ==
    IF Len(instanceName) = 0 THEN "" ELSE Head(instanceName)

\* #findCommissionableQueryIdentifier.  Its first statement throws when the
\* scanner is closing; it is only called from #handleCommissionableRecords,
\* which #handleDnsMessage does not reach while closing.
\* Returns << queryId >>, or << >> for undefined.
findCommissionableQueryIdentifier(s, instanceName, record) ==
    LET Active(queryId) == MapHas(s.aq, queryId)
        instanceQueryId ==
            buildCommissionableQueryIdentifier(InstanceIdentifier(extractInstanceId(instanceName)))
        longDiscriminatorQueryId ==
            buildCommissionableQueryIdentifier(LongDiscriminatorIdentifier(record.D))
        shortDiscriminatorQueryId ==
            buildCommissionableQueryIdentifier(ShortDiscriminatorIdentifier(record.SD))
        vendorProductIdQueryId ==
            buildCommissionableQueryIdentifier(VendorProductIdentifier(record.V, record.P))
        vendorIdQueryId == buildCommissionableQueryIdentifier(VendorIdentifier(record.V))
        deviceTypeQueryId == buildCommissionableQueryIdentifier(DeviceTypeIdentifier(record.DT))
        productIdQueryId == buildCommissionableQueryIdentifier(ProductIdentifier(record.P))
        commissioningModeQueryId == buildCommissionableQueryIdentifier(NoIdentifier)
    IN  IF Active(instanceQueryId) THEN << instanceQueryId >>
        ELSE IF Active(longDiscriminatorQueryId) THEN << longDiscriminatorQueryId >>
        ELSE IF Active(shortDiscriminatorQueryId) THEN << shortDiscriminatorQueryId >>
        ELSE IF record.V # undefined /\ record.P # undefined /\ Active(vendorProductIdQueryId)
        THEN << vendorProductIdQueryId >>
        ELSE IF record.V # undefined /\ Active(vendorIdQueryId) THEN << vendorIdQueryId >>
        ELSE IF record.DT # undefined /\ Active(deviceTypeQueryId) THEN << deviceTypeQueryId >>
        ELSE IF record.P # undefined /\ Active(productIdQueryId) THEN << productIdQueryId >>
        ELSE IF Active(commissioningModeQueryId) THEN << commissioningModeQueryId >>
        ELSE << >>

getCommissionableQueryRecords(identifier) ==
    LET second ==
            IF "instanceId" \in identifier.keys
            THEN getDeviceInstanceQname(identifier.instanceId)
            ELSE IF "longDiscriminator" \in identifier.keys
            THEN getLongDiscriminatorQname(identifier.longDiscriminator)
            ELSE IF "shortDiscriminator" \in identifier.keys
            THEN getShortDiscriminatorQname(identifier.shortDiscriminator)
            ELSE IF "vendorId" \in identifier.keys
            THEN getVendorQname(identifier.vendorId)
            ELSE IF "deviceType" \in identifier.keys
            THEN getDeviceTypeQname(identifier.deviceType)
            ELSE getCommissioningModeQname
    IN  << DnsQuery(MATTER_COMMISSION_SERVICE_QNAME, "PTR"), DnsQuery(second, "PTR") >>

---------------------------------------------------------------------------
(* Cache reads *)

\* what a public call returns of a device: its identifier and its sorted
\* addresses (the discovery data travels with it unchanged)
ReturnedDevice(deviceIdentifier, addresses) ==
    [deviceIdentifier |-> deviceIdentifier, addresses |-> ServerAddresses(addresses)]

\* a lookup that never finds the device (C4 is checked against it)
getOperationalDeviceRecordsMissing(s, deviceMatterQname) == << >>

\* << device >>, or << >> for undefined
getOperationalDeviceRecords(s, deviceMatterQname) ==
    IF deviceMatterQname \notin DOMAIN s.op THEN << >>
    ELSE LET device == s.op[deviceMatterQname]
         IN  IF Len(device.addresses) = 0 THEN << >>
             ELSE << ReturnedDevice(device.deviceIdentifier, device.addresses) >>

MatchesIdentifier(record, identifier) ==
    IF "instanceId" \in identifier.keys THEN record.instanceId = identifier.instanceId
    ELSE IF "longDiscriminator" \in identifier.keys
    THEN record.D = identifier.longDiscriminator
    ELSE IF "shortDiscriminator" \in identifier.keys
    THEN record.SD = identifier.shortDiscriminator
    ELSE IF "vendorId" \in identifier.keys /\ "productId" \in identifier.keys
    THEN record.V = identifier.vendorId /\ record.P = identifier.productId
    ELSE IF "vendorId" \in identifier.keys THEN record.V = identifier.vendorId
    ELSE IF "deviceType" \in identifier.keys THEN record.DT = identifier.deviceType
    ELSE IF "productId" \in identifier.keys THEN record.P = identifier.productId
    ELSE IF identifier.keys = {} THEN record.CM = 1 \/ record.CM = 2
    ELSE FALSE

getCommissionableDeviceRecords(s, identifier) ==
    LET foundRecords ==
            SelectSeq(MapValues(s.comm), LAMBDA record : MatchesIdentifier(record, identifier))
    IN  [i \in 1..Len(foundRecords) |->
            ReturnedDevice(<< foundRecords[i].deviceIdentifier >>, foundRecords[i].addresses)]


---------------------------------------------------------------------------
(* TXT parser *)

\* The keys #parseTxtRecord reads.  The model carries T, D, CM, DT, ICD and
\* VP; SII, SAI, SAT, PH, DN, RI and PI are parsed the same way and travel
\* with the device unchanged.
IntKeys == { "SII", "SAI", "SAT", "T", "D", "CM", "DT", "PH", "ICD" }
StringKeys == { "VP", "DN", "RI", "PI" }

TxtItem(key, val) == [key |-> key, val |-> val]

\* the result object before any key is set
EmptyTxtData ==
    [T |-> undefined, D |-> undefined, CM |-> undefined, DT |-> undefined,
     ICD |-> undefined, VP |-> << >>]

\* the for-loop of #parseTxtRecord over the items of the TXT value
RECURSIVE ParseTxtItems(_, _)
ParseTxtItems(items, result) ==
    IF Len(items) = 0 THEN result
    ELSE LET item == Head(items)
             next ==
                 IF Len(item.val) = 0 THEN result            \* no "=" in the item
                 ELSE IF item.key \in IntKeys
                 THEN IF item.val[1] = NaN \/ item.key \notin DOMAIN result THEN result
                      ELSE [result EXCEPT ![item.key] = item.val[1]]
                 ELSE IF item.key \in StringKeys
                 THEN IF item.key \notin DOMAIN result THEN result
                      ELSE [result EXCEPT ![item.key] = item.val]
                 ELSE result
         IN  ParseTxtItems(Tail(items), next)

parseTxtRecord(record) ==
    LET result == ParseTxtItems(record.txt, EmptyTxtData)
    IN  [result EXCEPT !.T = IF result.T = undefined \/ result.T = 1 THEN 0 ELSE result.T,
                       !.ICD = IF result.ICD = undefined THEN 0 ELSE result.ICD]

\* { ...device, ...txtData }: a key txtData has overrides the device's
MergeTxtData(device, txtData) ==
    [device EXCEPT !.T = IF txtData.T # undefined THEN txtData.T ELSE @,
                   !.D = IF txtData.D # undefined THEN txtData.D ELSE @,
                   !.CM = IF txtData.CM # undefined THEN txtData.CM ELSE @,
                   !.DT = IF txtData.DT # undefined THEN txtData.DT ELSE @,
                   !.ICD = IF txtData.ICD # undefined THEN txtData.ICD ELSE @,
                   !.VP = IF Len(txtData.VP) # 0 THEN txtData.VP ELSE @]

\* #parseCommissionableTxtRecord without the test on D and CM (C33 is
\* checked against it)
parseCommissionableTxtRecordUnchecked(record) ==
    LET parsed == parseTxtRecord(record)
    IN  << [deviceIdentifier |-> "", instanceId |-> "", addresses |-> << >>,
            expires |-> now + record.ttl,
            discoveredAt |-> undefined, ttl |-> undefined,
            T |-> parsed.T, D |-> parsed.D, CM |-> parsed.CM, DT |-> parsed.DT,
            ICD |-> parsed.ICD, VP |-> parsed.VP,
            SD |-> undefined, V |-> undefined, P |-> undefined] >>

\* << record >> with { addresses: new Map(), expires, ...parsed }, or << >>
\* for undefined.  The object gets no discoveredAt and no ttl.
parseCommissionableTxtRecord(record) ==
    LET parsed == parseTxtRecord(record)
    IN  IF parsed.D = undefined \/ parsed.CM = undefined THEN << >>
        ELSE << [deviceIdentifier |-> "", instanceId |-> "", addresses |-> << >>,
                 expires |-> now + record.ttl,
                 discoveredAt |-> undefined, ttl |-> undefined,
                 T |-> parsed.T, D |-> parsed.D, CM |-> parsed.CM, DT |-> parsed.DT,
                 ICD |-> parsed.ICD, VP |-> parsed.VP,
                 SD |-> undefined, V |-> undefined, P |-> undefined] >>

---------------------------------------------------------------------------
(* Arithmetic on values that may be undefined *)

\* a + b in JavaScript: NaN when an operand is undefined or NaN
Plus(a, b) == IF a \in {undefined, NaN} \/ b \in {undefined, NaN} THEN NaN ELSE a + b
\* a < b and a >= b: false when an operand is NaN
Less(a, b) == a # NaN /\ b # NaN /\ a < b
GreaterEq(a, b) == a # NaN /\ b # NaN /\ a >= b

---------------------------------------------------------------------------
(* Message correlator: operational records *)

\* #handleIpRecords without "&& this.#enableIpv4" (C36 is checked against it)
handleIpRecordsWithIpv4(answers, target, netInterface) ==
    LET ipRecords ==
            SelectSeq(answers, LAMBDA r :
                /\ r.recordType = "A" \/ r.recordType = "AAAA"
                /\ r.name = target)
    IN  [i \in 1..Len(ipRecords) |->
            [value |-> IF StartsWithFe80ColonColon(ipRecords[i].ip)
                       THEN Ip(ipRecords[i].ip, netInterface)
                       ELSE Ip(ipRecords[i].ip, ""),
             ttl |-> ipRecords[i].ttl]]

\* the A/AAAA records for target as { value, ttl }, link-local literals
\* annotated with the receiving interface
handleIpRecords(answers, target, netInterface) ==
    LET ipRecords ==
            SelectSeq(answers, LAMBDA r :
                /\ (r.recordType = "A" /\ enableIpv4) \/ r.recordType = "AAAA"
                /\ r.name = target)
    IN  [i \in 1..Len(ipRecords) |->
            [value |-> IF StartsWithFe80ColonColon(ipRecords[i].ip)
                       THEN Ip(ipRecords[i].ip, netInterface)
                       ELSE Ip(ipRecords[i].ip, ""),
             ttl |-> ipRecords[i].ttl]]

IsOperationalRecord(r, recordType) ==
    r.recordType = recordType /\ EndsWith(r.name, MATTER_SERVICE_QNAME)

\* the TXT handler without "discoveredAt: Time.nowMs()": a cached device
\* keeps the time of its discovery (C17 is checked against it)
handleOperationalTxtRecordKeepingTime(s, record) ==
    LET matterName == record.name
    IN  IF record.ttl = 0
        THEN IF matterName \in DOMAIN s.op
             THEN [s EXCEPT !.op = Without(s.op, matterName)]
             ELSE s
        ELSE LET txtData == parseTxtRecord(record)
                 device ==
                     IF matterName \in DOMAIN s.op
                     THEN MergeTxtData([s.op[matterName] EXCEPT !.ttl = record.ttl], txtData)
                     ELSE MergeTxtData([deviceIdentifier |-> matterName,
                                        addresses |-> << >>,
                                        discoveredAt |-> now, ttl |-> record.ttl,
                                        T |-> undefined, D |-> undefined, CM |-> undefined,
                                        DT |-> undefined, ICD |-> undefined, VP |-> << >>],
                                       txtData)
             IN  [s EXCEPT !.op = With(s.op, matterName, device)]

handleOperationalTxtRecord(s, record) ==
    LET matterName == record.name
    IN  IF record.ttl = 0
        THEN IF matterName \in DOMAIN s.op
             THEN [s EXCEPT !.op = Without(s.op, matterName)]
             ELSE s
        ELSE LET txtData == parseTxtRecord(record)
                 device ==
                     IF matterName \in DOMAIN s.op
                     THEN MergeTxtData([s.op[matterName] EXCEPT !.discoveredAt = now,
                                                                !.ttl = record.ttl],
                                       txtData)
                     ELSE MergeTxtData([deviceIdentifier |-> matterName,
                                        addresses |-> << >>,
                                        discoveredAt |-> now, ttl |-> record.ttl,
                                        T |-> undefined, D |-> undefined, CM |-> undefined,
                                        DT |-> undefined, ICD |-> undefined, VP |-> << >>],
                                       txtData)
             IN  [s EXCEPT !.op = With(s.op, matterName, device)]

\* the for-loop over ips of #handleOperationalSrvRecord: the entry gets
\* discoveredAt = now + ttl and no ttl of its own
RECURSIVE OperationalAddresses(_, _, _)
OperationalAddresses(addresses, ips, port) ==
    IF Len(ips) = 0 THEN addresses
    ELSE LET ip == Head(ips).value
             ttl == Head(ips).ttl
             matterServer ==
                 IF MapHas(addresses, ip) THEN MapGet(addresses, ip)
                 ELSE [ip |-> ip, port |-> port, discoveredAt |-> undefined,
                       ttl |-> undefined]
         IN  OperationalAddresses(
                 IF ttl = 0 THEN MapDelete(addresses, ip)
                 ELSE MapSet(addresses, ip, [matterServer EXCEPT !.discoveredAt = now + ttl]),
                 Tail(ips), port)

AddressQueries(target) ==
    IF enableIpv4
    THEN << DnsQuery(target, "AAAA"), DnsQuery(target, "A") >>
    ELSE << DnsQuery(target, "AAAA") >>

handleOperationalSrvRecord(s, record, answers, formerAnswers, netInterface) ==
    LET matterName == record.name
    IN  IF record.ttl = 0
        THEN IF matterName \in DOMAIN s.op
             THEN [s EXCEPT !.op = Without(s.op, matterName)]
             ELSE s
        ELSE LET ips == handleIpRecords(answers \o formerAnswers, record.target, netInterface)
                 deviceExisted == matterName \in DOMAIN s.op
                 device ==
                     IF deviceExisted THEN s.op[matterName]
                     ELSE [deviceIdentifier |-> matterName, addresses |-> << >>,
                           discoveredAt |-> now, ttl |-> record.ttl,
                           T |-> undefined, D |-> undefined, CM |-> undefined,
                           DT |-> undefined, ICD |-> undefined, VP |-> << >>]
                 addresses == OperationalAddresses(device.addresses, ips, record.port)
                 s1 == IF Len(ips) > 0
                       THEN [s EXCEPT !.op = With(s.op, matterName,
                                                  [device EXCEPT !.addresses = addresses])]
                       ELSE s
             IN  IF Len(addresses) = 0 /\ hasWaiter(s1, matterName)
                 THEN setQueryRecords(s1, matterName, AddressQueries(record.target), answers)
                 ELSE IF Len(addresses) > 0
                 THEN finishWaiter(s1, matterName, TRUE, deviceExisted)
                 ELSE s1

\* [s |-> the state afterwards, handled |-> recordsHandled]
handleOperationalRecords(s, answers, formerAnswers, netInterface) ==
    LET txtAt == FindIndex({ i \in 1..Len(answers) : IsOperationalRecord(answers[i], "TXT") })
        s1 == IF txtAt # 0 THEN handleOperationalTxtRecord(s, answers[txtAt]) ELSE s
        srvAt == FindIndex({ i \in 1..Len(answers) : IsOperationalRecord(answers[i], "SRV") })
        formerSrvAt ==
            FindIndex({ i \in 1..Len(formerAnswers) :
                          IsOperationalRecord(formerAnswers[i], "SRV") })
        s2 == IF srvAt # 0
              THEN handleOperationalSrvRecord(s1, answers[srvAt], answers, formerAnswers,
                                              netInterface)
              ELSE IF formerSrvAt # 0
              THEN handleOperationalSrvRecord(s1, formerAnswers[formerSrvAt], answers,
                                              formerAnswers, netInterface)
              ELSE s1
    IN  [s |-> s2, handled |-> txtAt # 0 \/ srvAt # 0 \/ formerSrvAt # 0]


---------------------------------------------------------------------------
(* Message correlator: commissionable records *)

\* the for-loop over ips of #handleCommissionableRecords: the entry gets
\* discoveredAt = now and ttl = the record's
RECURSIVE CommissionableAddresses(_, _, _)
CommissionableAddresses(addresses, ips, port) ==
    IF Len(ips) = 0 THEN addresses
    ELSE LET ip == Head(ips).value
             ttl == Head(ips).ttl
             matterServer ==
                 IF MapHas(addresses, ip) THEN MapGet(addresses, ip)
                 ELSE [ip |-> ip, port |-> port, discoveredAt |-> undefined,
                       ttl |-> undefined]
         IN  CommissionableAddresses(
                 IF ttl = 0 THEN MapDelete(addresses, ip)
                 ELSE MapSet(addresses, ip,
                             [matterServer EXCEPT !.discoveredAt = now, !.ttl = ttl]),
                 Tail(ips), port)

\* the statements of the TXT loop after a successful parse
CompleteParsedRecord(parsedRecord, name) ==
    LET withIds == [parsedRecord EXCEPT !.instanceId = extractInstanceId(name),
                                        !.deviceIdentifier = extractInstanceId(name)]
        withSD == IF withIds.D # undefined /\ withIds.SD = undefined
                  THEN [withIds EXCEPT !.SD = (withIds.D \div 256) % 16]
                  ELSE withIds
    IN  IF Len(withSD.VP) # 0
        THEN [withSD EXCEPT !.V = withSD.VP[1],
                            !.P = IF Len(withSD.VP) > 1 THEN withSD.VP[2] ELSE undefined]
        ELSE withSD

\* a Set in insertion order
SetAdd(seq, e) == IF \E i \in 1..Len(seq) : seq[i] = e THEN seq ELSE Append(seq, e)
SetDelete(seq, e) == SelectSeq(seq, LAMBDA x : x # e)

\* the loop "for (const record of txtRecords)"; st is
\* [s, queryMissingDataForInstances]
RECURSIVE CommissionableTxtLoop(_, _)
CommissionableTxtLoop(st, txtRecords) ==
    IF Len(txtRecords) = 0 THEN st
    ELSE LET record == Head(txtRecords)
             name == record.name
             s == st.s
             parsed == parseCommissionableTxtRecord(record)
             next ==
                 IF record.ttl = 0
                 THEN [st EXCEPT !.s.comm = MapDelete(s.comm, name)]
                 ELSE IF Len(parsed) = 0 THEN st
                 ELSE LET parsedRecord == CompleteParsedRecord(parsed[1], name)
                      IN  IF ~MapHas(s.comm, name)
                          THEN [s |-> [s EXCEPT !.comm = MapSet(s.comm, name, parsedRecord)],
                                queryMissingDataForInstances |->
                                    SetAdd(st.queryMissingDataForInstances, name)]
                          ELSE [st EXCEPT !.s.comm =
                                    MapSet(s.comm, name,
                                           [parsedRecord EXCEPT !.addresses =
                                                MapGet(s.comm, name).addresses])]
         IN  CommissionableTxtLoop(next, Tail(txtRecords))

\* the loop "for (const record of srvRecords)"
RECURSIVE CommissionableSrvLoop(_, _, _, _, _)
CommissionableSrvLoop(st, srvRecords, answers, formerAnswers, netInterface) ==
    IF Len(srvRecords) = 0 THEN st
    ELSE LET record == Head(srvRecords)
             s == st.s
             next ==
                 IF ~MapHas(s.comm, record.name) THEN st
                 ELSE IF record.ttl = 0
                 THEN [st EXCEPT !.s.comm = MapDelete(s.comm, record.name)]
                 ELSE LET old == MapGet(s.comm, record.name)
                          recordExisting == Len(old.addresses) > 0
                          ips == handleIpRecords(answers \o formerAnswers, record.target,
                                                 netInterface)
                          storedRecord ==
                              [old EXCEPT !.addresses =
                                   CommissionableAddresses(old.addresses, ips, record.port)]
                          s1 == [s EXCEPT !.comm = MapSet(s.comm, record.name, storedRecord)]
                          followUpId == findCommissionableQueryIdentifier(s1, << >>, storedRecord)
                          queryId ==
                              findCommissionableQueryIdentifier(s1, record.name, storedRecord)
                      IN  IF Len(storedRecord.addresses) = 0
                          THEN IF Len(followUpId) = 0 THEN [st EXCEPT !.s = s1]
                               ELSE [st EXCEPT !.s =
                                        setQueryRecords(s1, followUpId[1],
                                                        AddressQueries(record.target), answers)]
                          ELSE IF Len(queryId) = 0 THEN [st EXCEPT !.s = s1]
                          ELSE [s |-> finishWaiter(s1, queryId[1], TRUE, recordExisting),
                                queryMissingDataForInstances |->
                                    SetDelete(st.queryMissingDataForInstances, record.name)]
         IN  CommissionableSrvLoop(next, Tail(srvRecords), answers, formerAnswers, netInterface)

\* the loop over queryMissingDataForInstances
RECURSIVE CommissionableMissingLoop(_, _, _)
CommissionableMissingLoop(s, names, answers) ==
    IF Len(names) = 0 THEN s
    ELSE LET name == Head(names)
             queryId ==
                 IF MapHas(s.comm, name)
                 THEN findCommissionableQueryIdentifier(s, << >>, MapGet(s.comm, name))
                 ELSE << >>
             next ==
                 IF Len(queryId) = 0 THEN s
                 ELSE setQueryRecords(s, queryId[1], << DnsQuery(name, "ANY") >>, answers)
         IN  CommissionableMissingLoop(next, Tail(names), answers)

handleCommissionableRecords(s, answers, formerAnswers, netInterface) ==
    LET IsCommissionable(r) == EndsWith(r.name, MATTER_COMMISSION_SERVICE_QNAME)
        fromAnswers == SelectSeq(answers, IsCommissionable)
        commissionableRecords ==
            IF Len(fromAnswers) # 0 THEN fromAnswers
            ELSE SelectSeq(formerAnswers, IsCommissionable)
        txtRecords == SelectSeq(commissionableRecords, LAMBDA r : r.recordType = "TXT")
        srvRecords == SelectSeq(commissionableRecords, LAMBDA r : r.recordType = "SRV")
        afterTxt ==
            CommissionableTxtLoop([s |-> s, queryMissingDataForInstances |-> << >>],
                                  txtRecords)
        afterSrv ==
            CommissionableSrvLoop(afterTxt, srvRecords, answers, formerAnswers, netInterface)
    IN  IF Len(commissionableRecords) = 0 THEN s
        ELSE CommissionableMissingLoop(afterSrv.s, afterSrv.queryMissingDataForInstances,
                                       answers)

\* the body of #handleDnsMessage after the closing test, for a decoded message
handleDecodedMessage(s, message, netInterface) ==
    IF message.messageType \notin { "Response", "TruncatedResponse" } THEN s
    ELSE LET answers == message.answers \o message.additionalRecords
             operational ==
                 handleOperationalRecords(s, answers, getActiveQueryEarlierAnswers(s),
                                          netInterface)
         IN  IF operational.handled THEN operational.s
             ELSE handleCommissionableRecords(operational.s, answers,
                                              getActiveQueryEarlierAnswers(operational.s),
                                              netInterface)

---------------------------------------------------------------------------
(* Expiry sweep *)

\* the inner forEach of #expire: the addresses that stay
UnexpiredAddresses(addresses) ==
    SelectSeq(addresses, LAMBDA e : Less(now, Plus(e.val.discoveredAt, e.val.ttl)))

\* the device after the sweep looked at it: << device >>, or << >> when deleted
ExpireDevice(device) ==
    LET expires == Plus(device.discoveredAt, device.ttl)
        addresses == IF Less(now, expires) THEN UnexpiredAddresses(device.addresses)
                     ELSE device.addresses
    IN  IF GreaterEq(now, expires) \/ Len(addresses) = 0 THEN << >>
        ELSE << [device EXCEPT !.addresses = addresses] >>

RECURSIVE ExpireCommissionable(_)
ExpireCommissionable(comm) ==
    IF Len(comm) = 0 THEN << >>
    ELSE LET kept == ExpireDevice(Head(comm).val)
         IN  (IF Len(kept) = 0 THEN << >> ELSE << [key |-> Head(comm).key, val |-> kept[1]] >>)
             \o ExpireCommissionable(Tail(comm))

expire(s) ==
    LET keptOperational == { k \in DOMAIN s.op : Len(ExpireDevice(s.op[k])) # 0 }
    IN  [s EXCEPT !.op = [k \in keptOperational |-> ExpireDevice(s.op[k])[1]],
                  !.comm = ExpireCommissionable(s.comm)]


---------------------------------------------------------------------------
(* Broadcast assembly *)

\* a message that is sent as a Query whatever its type (C14 is checked
\* against it)
DatagramAsQuery(messageType, queries, answers) ==
    [messageType |-> "Query", queries |-> queries, answers |-> answers]

Datagram(messageType, queries, answers) ==
    [messageType |-> messageType, queries |-> queries, answers |-> answers]

\* the loop without "queries.length = 0": every datagram carries the
\* queries (C15 is checked against it)
RECURSIVE SendLoopKeepingQueries(_, _, _, _, _)
SendLoopKeepingQueries(answersToSend, m, size, emptySize, out) ==
    IF Len(answersToSend) = 0
    THEN Append(out, Datagram("Query", m.queries, m.answers))
    ELSE LET nextAnswer == Head(answersToSend)
             grown == size + EncodedRecordLength(nextAnswer)
         IN  IF grown > MAX_MDNS_MESSAGE_SIZE
             THEN SendLoopKeepingQueries(
                      Tail(answersToSend),
                      [queries |-> m.queries, answers |-> << nextAnswer >>],
                      emptySize + EncodedRecordLength(nextAnswer), emptySize,
                      Append(out, Datagram("TruncatedQuery", m.queries, m.answers)))
             ELSE SendLoopKeepingQueries(
                      Tail(answersToSend),
                      [m EXCEPT !.answers = Append(m.answers, nextAnswer)],
                      grown, emptySize, out)

\* the loop starting the next fragment empty, without the answer that did
\* not fit (C29 is checked against it)
RECURSIVE SendLoopDroppingAnswer(_, _, _, _, _)
SendLoopDroppingAnswer(answersToSend, m, size, emptySize, out) ==
    IF Len(answersToSend) = 0
    THEN Append(out, Datagram("Query", m.queries, m.answers))
    ELSE LET nextAnswer == Head(answersToSend)
             grown == size + EncodedRecordLength(nextAnswer)
         IN  IF grown > MAX_MDNS_MESSAGE_SIZE
             THEN SendLoopDroppingAnswer(
                      Tail(answersToSend),
                      [queries |-> << >>, answers |-> << >>],
                      emptySize, emptySize,
                      Append(out, Datagram("TruncatedQuery", m.queries, m.answers)))
             ELSE SendLoopDroppingAnswer(
                      Tail(answersToSend),
                      [m EXCEPT !.answers = Append(m.answers, nextAnswer)],
                      grown, emptySize, out)

\* The while-loop of #sendQueries and the final send: the datagrams in the
\* order they are handed to transport.send.  m is dnsMessageDataToSend
\* (m.queries is the same array as the local queries: "queries.length = 0"
\* empties it for the rest of the broadcast), size is dnsMessageSize.
RECURSIVE SendLoop(_, _, _, _, _)
SendLoop(answersToSend, m, size, emptySize, out) ==
    IF Len(answersToSend) = 0
    THEN Append(out, Datagram("Query", m.queries, m.answers))
    ELSE LET nextAnswer == Head(answersToSend)
             grown == size + EncodedRecordLength(nextAnswer)
         IN  IF grown > MAX_MDNS_MESSAGE_SIZE
             THEN SendLoop(Tail(answersToSend),
                           [queries |-> << >>, answers |-> << nextAnswer >>],
                           emptySize + EncodedRecordLength(nextAnswer), emptySize,
                           Append(out, Datagram("TruncatedQuery", m.queries, m.answers)))
             ELSE SendLoop(Tail(answersToSend),
                           [m EXCEPT !.answers = Append(m.answers, nextAnswer)],
                           grown, emptySize, out)

sendQueriesDatagrams(queries, answers) ==
    SendLoop(answers, [queries |-> queries, answers |-> << >>],
             EncodedEmptyMessageLength(queries), EncodedEmptyMessageLength(queries), << >>)

---------------------------------------------------------------------------
(* Public calls *)

\* a slot of calls that no call uses yet
UnusedCall ==
    [kind |-> "none", pc |-> "unused", identifier |-> NoIdentifier, queryId |-> << >>,
     timeoutSeconds |-> undefined, ignoreExistingRecords |-> FALSE,
     waited |-> FALSE, result |-> << >>,
     discoveredDevices |-> {}, callbacks |-> << >>, discoveryEndTime |-> undefined,
     cancelSignal |-> FALSE, canceled |-> FALSE, callbackAfterCancel |-> FALSE]

CallIds == 1..MaxCalls

\* a resolved promise's continuation runs before any timer, datagram or
\* other task
MicrotaskPending == \E c \in CallIds : calls[c].pc = "resolved"

\* calls are numbered in the order they are made
NextCall(c) ==
    /\ calls[c].pc = "unused"
    /\ \A d \in CallIds : d < c => calls[d].pc # "unused"

Others == << periodicTimer, closing, closePc, now, sent, inFlight, enableIpv4 >>

\* the operational instance name "<operationalId>-<nodeId>._matter._tcp.local"
\* is given to the call as deviceMatterQname
findOperationalDeviceCalled(s0, c, deviceMatterQname, timeoutSeconds, ignoreExistingRecords) ==
    LET call == [UnusedCall EXCEPT !.kind = "operational",
                                   !.queryId = deviceMatterQname,
                                   !.timeoutSeconds = timeoutSeconds,
                                   !.ignoreExistingRecords = ignoreExistingRecords]
        s == [s0 EXCEPT !.calls[c] = call]
        storedDevice == IF ignoreExistingRecords THEN << >>
                        ELSE getOperationalDeviceRecords(s, deviceMatterQname)
    IN  IF closing
        THEN [s EXCEPT !.calls[c].pc = "threw"]
        ELSE IF Len(storedDevice) = 0
        THEN setQueryRecords(
                 registerWaiterPromise([s EXCEPT !.calls[c].waited = TRUE], c,
                                       deviceMatterQname, timeoutSeconds, TRUE),
                 deviceMatterQname, << DnsQuery(deviceMatterQname, "SRV") >>, << >>)
        ELSE [s EXCEPT !.calls[c].pc = "returned",
                       !.calls[c].result = storedDevice]

\* the call up to its await or its return
findOperationalDevice(c, deviceMatterQname, timeoutSeconds, ignoreExistingRecords) ==
    /\ ~MicrotaskPending
    /\ NextCall(c)
    /\ Commit(findOperationalDeviceCalled(Cur, c, deviceMatterQname, timeoutSeconds,
                                          ignoreExistingRecords))
    /\ UNCHANGED Others

\* a caller that cancels the discovery of a device and starts it again in
\* the same synchronous block: cancelOperationalDeviceDiscovery resolves the
\* waiter, and findOperationalDevice runs up to its await before the
\* continuation of the cancelled call
restartOperationalDiscovery(c, deviceMatterQname, timeoutSeconds) ==
    /\ ~MicrotaskPending
    /\ NextCall(c)
    /\ hasWaiter(Cur, deviceMatterQname)
    /\ Commit(findOperationalDeviceCalled(
                  finishWaiter(Cur, deviceMatterQname, TRUE, FALSE),
                  c, deviceMatterQname, timeoutSeconds, FALSE))
    /\ UNCHANGED Others

findCommissionableDevices(c, identifier, timeoutSeconds, ignoreExistingRecords) ==
    /\ ~MicrotaskPending
    /\ NextCall(c)
    /\ LET queryId == buildCommissionableQueryIdentifier(identifier)
           call == [UnusedCall EXCEPT !.kind = "commissionable",
                                      !.identifier = identifier,
                                      !.queryId = queryId,
                                      !.timeoutSeconds = timeoutSeconds,
                                      !.ignoreExistingRecords = ignoreExistingRecords]
           s == [Cur EXCEPT !.calls[c] = call]
           storedRecords ==
               IF ignoreExistingRecords THEN << >>
               ELSE SelectSeq(getCommissionableDeviceRecords(s, identifier),
                           LAMBDA d : Len(d.addresses) > 0)
       IN  IF Len(storedRecords) = 0
           THEN Commit(setQueryRecords(
                    registerWaiterPromise([s EXCEPT !.calls[c].waited = TRUE], c, queryId,
                                          timeoutSeconds, TRUE),
                    queryId, getCommissionableQueryRecords(identifier), << >>))
           ELSE Commit([s EXCEPT !.calls[c].pc = "returned",
                                 !.calls[c].result = storedRecords])
    /\ UNCHANGED Others

\* the forEach without the test on discoveredDevices (C6 is checked against it)
RECURSIVE EmitDevicesAgain(_, _)
EmitDevicesAgain(call, devices) ==
    IF Len(devices) = 0 THEN call
    ELSE LET deviceIdentifier == Head(devices).deviceIdentifier[1]
         IN  EmitDevicesAgain(
                 [call EXCEPT !.discoveredDevices = @ \cup {deviceIdentifier},
                              !.callbacks = Append(@, deviceIdentifier),
                              !.callbackAfterCancel = @ \/ call.canceled],
                 Tail(devices))

\* the forEach at the top of the while-loop: the callback is invoked for the
\* devices not seen before, in the order of the cache
RECURSIVE EmitDevices(_, _)
EmitDevices(call, devices) ==
    IF Len(devices) = 0 THEN call
    ELSE LET deviceIdentifier == Head(devices).deviceIdentifier[1]
         IN  EmitDevices(
                 IF deviceIdentifier \in call.discoveredDevices THEN call
                 ELSE [call EXCEPT !.discoveredDevices = @ \cup {deviceIdentifier},
                                   !.callbacks = Append(@, deviceIdentifier),
                                   !.callbackAfterCancel = @ \/ call.canceled],
                 Tail(devices))

\* The while-loop of findCommissionableDevicesContinuously from its test
\* "!canceled" to the next await, or to the return.  The waiter is registered
\* with the outer remainingTime, which is never assigned: undefined.
ContinuousLoop(s, c) ==
    LET call == s.calls[c]
        devices == getCommissionableDeviceRecords(s, call.identifier)
        emitted == EmitDevices(call, devices)
        s1 == [s EXCEPT !.calls[c] = emitted]
        remainingTime == call.discoveryEndTime - now
        outerRemainingTime == undefined
    IN  IF call.canceled
        THEN [s EXCEPT !.calls[c].pc = "returned", !.calls[c].result = devices]
        ELSE IF call.discoveryEndTime # undefined /\ remainingTime <= 0
        THEN [s1 EXCEPT !.calls[c].pc = "returned", !.calls[c].result = devices]
        ELSE registerWaiterPromise([s1 EXCEPT !.calls[c].waited = TRUE], c, call.queryId,
                                   outerRemainingTime, FALSE)

findCommissionableDevicesContinuously(c, identifier, timeoutSeconds, cancelSignal) ==
    /\ ~MicrotaskPending
    /\ NextCall(c)
    /\ LET queryId == buildCommissionableQueryIdentifier(identifier)
           call == [UnusedCall EXCEPT !.kind = "continuous",
                                      !.identifier = identifier,
                                      !.queryId = queryId,
                                      !.timeoutSeconds = timeoutSeconds,
                                      !.discoveryEndTime =
                                          IF timeoutSeconds # undefined /\ timeoutSeconds # 0
                                          THEN now + timeoutSeconds ELSE undefined,
                                      !.cancelSignal = cancelSignal]
           s == setQueryRecords([Cur EXCEPT !.calls[c] = call], queryId,
                                getCommissionableQueryRecords(identifier), << >>)
       IN  Commit(ContinuousLoop(s, c))
    /\ UNCHANGED Others

\* cancelSignal is signalled: the "then" callback of the call runs
cancelSignalled(c) ==
    /\ ~MicrotaskPending
    /\ calls[c].kind = "continuous"
    /\ calls[c].cancelSignal
    /\ ~calls[c].canceled
    /\ Commit(finishWaiter([Cur EXCEPT !.calls[c].canceled = TRUE], calls[c].queryId,
                           TRUE, FALSE))
    /\ UNCHANGED Others

\* (a cancel that finds no waiter changes nothing and is left out)
cancelOperationalDeviceDiscovery(deviceMatterQname, resolvePromise) ==
    /\ ~MicrotaskPending
    /\ hasWaiter(Cur, deviceMatterQname)
    /\ Commit(finishWaiter(Cur, deviceMatterQname, resolvePromise, FALSE))
    /\ UNCHANGED Others

cancelCommissionableDeviceDiscovery(identifier, resolvePromise) ==
    /\ ~MicrotaskPending
    /\ hasWaiter(Cur, buildCommissionableQueryIdentifier(identifier))
    /\ Commit(finishWaiter(Cur, buildCommissionableQueryIdentifier(identifier),
                           resolvePromise, FALSE))
    /\ UNCHANGED Others

\* the code of a call after its await
resumed(s, c) ==
    LET call == s.calls[c]
    IN  IF call.kind = "operational"
        THEN removeQuery([s EXCEPT !.calls[c].pc = "returned",
                                   !.calls[c].result =
                                       getOperationalDeviceRecords(s, call.queryId)],
                         call.queryId)
        ELSE IF call.kind = "commissionable"
        THEN removeQuery([s EXCEPT !.calls[c].pc = "returned",
                                   !.calls[c].result =
                                       getCommissionableDeviceRecords(s, call.identifier)],
                         call.queryId)
        ELSE ContinuousLoop(s, c)

Resume(c) ==
    /\ calls[c].pc = "resolved"
    /\ Commit(resumed(Cur, c))
    /\ UNCHANGED Others


---------------------------------------------------------------------------
(* Events: datagrams, timers, transport *)

DnsMessage(messageType, answers, additionalRecords) ==
    [messageType |-> messageType, answers |-> answers,
     additionalRecords |-> additionalRecords]

\* #handleDnsMessage without "if (this.#closing) return" (C30 is checked
\* against it)
handleDnsMessageAlsoClosing(s, decoded, netInterface) ==
    IF Len(decoded) = 0 THEN s
    ELSE handleDecodedMessage(s, decoded[1], netInterface)

\* #handleDnsMessage; decoded is what DnsCodec.decode returns for the
\* datagram: << message >>, or << >> for undefined
handleDnsMessageReceived(s, decoded, netInterface) ==
    IF closing THEN s
    ELSE IF Len(decoded) = 0 THEN s
    ELSE handleDecodedMessage(s, decoded[1], netInterface)

\* #handleDnsMessage for a datagram DnsCodec.decode decodes to message
handleDnsMessage(message, netInterface) ==
    /\ ~MicrotaskPending
    /\ Commit(handleDnsMessageReceived(Cur, << message >>, netInterface))
    /\ UNCHANGED Others

\* #handleDnsMessage for a datagram DnsCodec.decode returns undefined for
handleUndecodableMessage(netInterface) ==
    /\ ~MicrotaskPending
    /\ Commit(handleDnsMessageReceived(Cur, << >>, netInterface))
    /\ UNCHANGED Others

\* the "MDNS timeout" timer of call c fires
waiterTimerFired(s, c) ==
    finishWaiter([s EXCEPT !.wt = @ \ {c}], s.calls[c].queryId, TRUE, FALSE)

waiterTimeout(c) ==
    /\ ~MicrotaskPending
    /\ c \in waiterTimers
    /\ Commit(waiterTimerFired(Cur, c))
    /\ UNCHANGED Others

\* #sendQueries up to its first await (the first transport.send is called
\* before the function suspends); the query timer fired.  limit bounds the
\* datagrams of a run.
sendQueriesWithin(limit) ==
    /\ ~MicrotaskPending
    /\ queryTimer.armed
    /\ sent < limit
    /\ LET datagrams == sendQueriesDatagrams(FlatQueries(activeAnnounceQueries),
                                             FlatAnswers(activeAnnounceQueries))
       IN  /\ queryTimer' = startTimer(stopTimer(queryTimer), nextAnnounceIntervalSeconds)
           /\ nextAnnounceIntervalSeconds' =
                  Min(nextAnnounceIntervalSeconds * 2, MAX_ANNOUNCE_INTERVAL_SECONDS)
           /\ sent' = sent + 1
           /\ inFlight' = IF Len(datagrams) > 1 THEN Append(inFlight, Tail(datagrams))
                          ELSE inFlight
    /\ UNCHANGED << activeAnnounceQueries, operationalDeviceRecords,
                    commissionableDeviceRecords, recordWaiters, waiterTimers,
                    periodicTimer, closing, closePc, calls, now, enableIpv4 >>

sendQueries == sendQueriesWithin(MaxSent)

\* transport.send completing as if a failed send also stopped the query
\* timer (C37 is checked against it)
transportSendDoneStoppingTimer(i, ok) ==
    /\ ~MicrotaskPending
    /\ i \in 1..Len(inFlight)
    /\ sent < MaxSent
    /\ IF ok
       THEN /\ sent' = sent + 1
            /\ inFlight' = IF Len(inFlight[i]) > 1
                           THEN [inFlight EXCEPT ![i] = Tail(@)]
                           ELSE RemoveAt(inFlight, i)
            /\ queryTimer' = queryTimer
       ELSE /\ sent' = sent
            /\ inFlight' = RemoveAt(inFlight, i)
            /\ queryTimer' = stopTimer(queryTimer)
    /\ UNCHANGED << activeAnnounceQueries, nextAnnounceIntervalSeconds,
                    operationalDeviceRecords, commissionableDeviceRecords, recordWaiters,
                    waiterTimers, periodicTimer, closing, closePc, calls, now, enableIpv4 >>

\* transport.send of a suspended #sendQueries completes: the function goes
\* on to its next transport.send, or ends, when the send failed, by throwing
transportSendDone(i, ok) ==
    /\ ~MicrotaskPending
    /\ i \in 1..Len(inFlight)
    /\ sent < MaxSent
    /\ IF ok
       THEN /\ sent' = sent + 1
            /\ inFlight' = IF Len(inFlight[i]) > 1
                           THEN [inFlight EXCEPT ![i] = Tail(@)]
                           ELSE RemoveAt(inFlight, i)
       ELSE /\ sent' = sent
            /\ inFlight' = RemoveAt(inFlight, i)
    /\ UNCHANGED << activeAnnounceQueries, queryTimer, nextAnnounceIntervalSeconds,
                    operationalDeviceRecords, commissionableDeviceRecords, recordWaiters,
                    waiterTimers, periodicTimer, closing, closePc, calls, now, enableIpv4 >>

\* the periodic "Discovered node expiration" timer fires
expireTimer ==
    /\ ~MicrotaskPending
    /\ periodicTimer
    /\ Commit(expire(Cur))
    /\ UNCHANGED Others

\* close() up to "await this.#multicastServer.close()"
closeStart ==
    /\ ~MicrotaskPending
    /\ closePc = "idle"
    /\ closing' = TRUE
    /\ periodicTimer' = FALSE
    /\ queryTimer' = stopTimer(queryTimer)
    /\ closePc' = "awaiting"
    /\ UNCHANGED << activeAnnounceQueries, nextAnnounceIntervalSeconds,
                    operationalDeviceRecords, commissionableDeviceRecords, recordWaiters,
                    waiterTimers, calls, now, sent, inFlight, enableIpv4 >>

\* the forEach of close() over the keys of #recordWaiters
RECURSIVE FinishAllWaiters(_, _)
FinishAllWaiters(s, queryIds) ==
    IF queryIds = {} THEN s
    ELSE LET queryId == CHOOSE q \in queryIds : TRUE
         IN  FinishAllWaiters(
                 finishWaiter(s, queryId,
                              queryId \in DOMAIN s.rw /\ s.rw[queryId].timer, FALSE),
                 queryIds \ {queryId})

\* close() after its await
closeFinish ==
    /\ ~MicrotaskPending
    /\ closePc = "awaiting"
    /\ closePc' = "closed"
    /\ Commit(FinishAllWaiters(Cur, DOMAIN recordWaiters))
    /\ UNCHANGED << periodicTimer, closing, now, sent, inFlight, enableIpv4 >>

\* time passes
tick ==
    /\ ~MicrotaskPending
    /\ now < MaxTime
    /\ now' = now + 1
    /\ UNCHANGED << activeAnnounceQueries, queryTimer, nextAnnounceIntervalSeconds,
                    operationalDeviceRecords, commissionableDeviceRecords, recordWaiters,
                    waiterTimers, periodicTimer, closing, closePc, calls, sent, inFlight,
                    enableIpv4 >>

---------------------------------------------------------------------------
(* The state after construction *)

InitScanner ==
    /\ activeAnnounceQueries = << >>
    /\ queryTimer = StoppedTimer
    /\ nextAnnounceIntervalSeconds = START_ANNOUNCE_INTERVAL_SECONDS
    /\ operationalDeviceRecords = << >>
    /\ commissionableDeviceRecords = << >>
    /\ recordWaiters = << >>
    /\ waiterTimers = {}
    /\ periodicTimer = TRUE
    /\ closing = FALSE
    /\ closePc = "idle"
    /\ calls = [c \in CallIds |-> UnusedCall]
    /\ now = 0
    /\ sent = 0
    /\ inFlight = << >>


---------------------------------------------------------------------------
(* The inputs of the model: names, records, datagrams, call arguments *)

OperationalA == << "0102-AA01" >> \o MATTER_SERVICE_QNAME
OperationalB == << "0102-BB02" >> \o MATTER_SERVICE_QNAME
CommissionableA == << "cA" >> \o MATTER_COMMISSION_SERVICE_QNAME
CommissionableB == << "cB" >> \o MATTER_COMMISSION_SERVICE_QNAME
Host1 == << "h1", "local" >>
Host2 == << "h2", "local" >>

Interfaces == { "eth0" }

\* TXT values: a commissionable device of vendor 1, product 1, and one of
\* vendor 2 without a product
TxtVendor1 == << TxtItem("D", << 3840 >>), TxtItem("CM", << 2 >>), TxtItem("VP", << 1, 1 >>) >>
TxtVendor2 == << TxtItem("D", << 840 >>), TxtItem("CM", << 1 >>), TxtItem("VP", << 2 >>) >>
TxtOperational == << TxtItem("SII", << 5000 >>), TxtItem("T", << 1 >>) >>

Response(answers) == DnsMessage("Response", answers, << >>)

\* an operational device with its link-local address
OperationalFull ==
    Response(<< TxtRecord(OperationalA, 1, TxtOperational),
                SrvRecord(OperationalA, 1, Host1, 5540),
                AaaaRecord(Host1, 1, "fe80::1") >>)
\* its TXT and SRV without an address; sent back as known answers they do
\* not fit into one datagram
OperationalWithoutAddress ==
    Response(<< LargeTxtRecord(OperationalA, 1, TxtOperational),
                SrvRecord(OperationalA, 1, Host1, 5540) >>)
\* its SRV record alone: the scanner asks for the addresses of the target
OperationalSrv == Response(<< SrvRecord(OperationalA, 1, Host1, 5540) >>)
\* the device announced with a longer time to live and another address
OperationalLongLived ==
    Response(<< TxtRecord(OperationalA, 2, TxtOperational),
                SrvRecord(OperationalA, 2, Host1, 5540),
                AaaaRecord(Host1, 2, "fd00::1") >>)
\* its goodbye: the TXT record with ttl 0, alone and in front of live records
OperationalGoodbye == Response(<< TxtRecord(OperationalA, 0, TxtOperational) >>)
OperationalGoodbyeWithRecords ==
    Response(<< TxtRecord(OperationalA, 0, TxtOperational),
                SrvRecord(OperationalA, 1, Host1, 5540),
                AaaaRecord(Host1, 1, "fd00::1") >>)
\* two operational devices answering in one response
OperationalTwoDevices ==
    Response(<< SrvRecord(OperationalB, 1, Host2, 5540),
                SrvRecord(OperationalA, 1, Host1, 5540),
                AaaaRecord(Host1, 1, "fd00::1") >>)
\* a commissionable device: TXT alone, all its records, its goodbye
CommissionableTxt == Response(<< TxtRecord(CommissionableA, 1, TxtVendor1) >>)
CommissionableFull ==
    Response(<< TxtRecord(CommissionableA, 1, TxtVendor1),
                SrvRecord(CommissionableA, 1, Host1, 5540),
                AaaaRecord(Host1, 1, "fd00::1") >>)
CommissionableGoodbye == Response(<< TxtRecord(CommissionableA, 0, TxtVendor1) >>)
\* a second commissionable device
CommissionableSecond ==
    Response(<< TxtRecord(CommissionableB, 1, TxtVendor2),
                SrvRecord(CommissionableB, 1, Host2, 5540),
                AaaaRecord(Host2, 1, "fe80::1") >>)
\* a datagram that is no response
QueryMessage == DnsMessage("Query", << >>, << >>)

OperationalMessages ==
    { OperationalFull, OperationalWithoutAddress, OperationalTwoDevices, QueryMessage }
CommissionableMessages == { CommissionableTxt, CommissionableFull, QueryMessage }
ContinuousMessages == { CommissionableFull, CommissionableGoodbye, CommissionableSecond }
Messages == { OperationalFull, CommissionableTxt, CommissionableFull, QueryMessage }
ScheduleMessages == { OperationalFull, OperationalSrv }
CacheMessages ==
    { OperationalFull, OperationalLongLived, OperationalSrv, OperationalGoodbye,
      OperationalGoodbyeWithRecords }

\* Inputs of the broadcast assembly: the queries of n discoveries going on
\* at once, and known answers of given encoded lengths
QueriesOf(n) == [i \in 1..n |-> DnsQuery(<< ToString(i) >> \o MATTER_SERVICE_QNAME, "SRV")]
ManyQueries == 50
BroadcastQueries == { QueriesOf(1), QueriesOf(3), QueriesOf(ManyQueries) }
KnownAnswer(len) == DnsRecord(OperationalA, "TXT", 1, << >>, 0, "", TxtOperational, len)
AnswerLengths == { 40, 600, 1400, 1600 }
BroadcastAnswers ==
    UNION { [1..n -> { KnownAnswer(len) : len \in AnswerLengths }] : n \in 0..MaxAnswers }

OperationalNames == { OperationalA }
Identifiers == { InstanceIdentifier("cA"), NoIdentifier }
ContinuousIdentifiers == { NoIdentifier }
Timeouts == { undefined, 1 }
\* findCommissionableDevices has a default timeout: it always waits with one
CommissionableTimeouts == { 1 }
\* a call made without cancelSignal behaves as one whose signal never comes
CancelSignals == { TRUE }

---------------------------------------------------------------------------
(* Specifications *)

\* the timers and close()
Events ==
    \/ \E c \in CallIds : Resume(c)
    \/ \E c \in CallIds : waiterTimeout(c)
    \/ sendQueries
    \/ expireTimer
    \/ closeStart
    \/ closeFinish
    \/ tick

Init == InitScanner /\ enableIpv4 = FALSE

\* operational and commissionable discovery side by side
Next ==
    \/ \E c \in CallIds, name \in OperationalNames, timeoutSeconds \in Timeouts,
          ignoreExistingRecords \in BOOLEAN :
          findOperationalDevice(c, name, timeoutSeconds, ignoreExistingRecords)
    \/ \E c \in CallIds, identifier \in { NoIdentifier },
          timeoutSeconds \in CommissionableTimeouts, ignoreExistingRecords \in BOOLEAN :
          findCommissionableDevices(c, identifier, timeoutSeconds, ignoreExistingRecords)
    \/ \E name \in OperationalNames, resolvePromise \in BOOLEAN :
          cancelOperationalDeviceDiscovery(name, resolvePromise)
    \/ \E identifier \in { NoIdentifier }, resolvePromise \in BOOLEAN :
          cancelCommissionableDeviceDiscovery(identifier, resolvePromise)
    \/ \E message \in Messages, netInterface \in Interfaces :
          handleDnsMessage(message, netInterface)
    \/ \E netInterface \in Interfaces : handleUndecodableMessage(netInterface)
    \/ Events

Spec == Init /\ [][Next]_vars

\* operational discovery
NextOperational ==
    \/ \E c \in CallIds, name \in OperationalNames, timeoutSeconds \in Timeouts,
          ignoreExistingRecords \in BOOLEAN :
          findOperationalDevice(c, name, timeoutSeconds, ignoreExistingRecords)
    \/ \E name \in OperationalNames, resolvePromise \in BOOLEAN :
          cancelOperationalDeviceDiscovery(name, resolvePromise)
    \/ \E message \in OperationalMessages, netInterface \in Interfaces :
          handleDnsMessage(message, netInterface)
    \/ \E i \in 1..Len(inFlight), ok \in BOOLEAN : transportSendDone(i, ok)
    \/ Events

SpecOperational == Init /\ [][NextOperational]_vars

\* commissionable discovery
NextCommissionable ==
    \/ \E c \in CallIds, identifier \in Identifiers,
          timeoutSeconds \in CommissionableTimeouts, ignoreExistingRecords \in BOOLEAN :
          findCommissionableDevices(c, identifier, timeoutSeconds, ignoreExistingRecords)
    \/ \E identifier \in Identifiers, resolvePromise \in BOOLEAN :
          cancelCommissionableDeviceDiscovery(identifier, resolvePromise)
    \/ \E message \in CommissionableMessages, netInterface \in Interfaces :
          handleDnsMessage(message, netInterface)
    \/ Events

SpecCommissionable == Init /\ [][NextCommissionable]_vars

\* continuous commissionable discovery, next to one-shot discovery calls for
\* the same devices
NextContinuous ==
    \/ \E c \in CallIds, identifier \in ContinuousIdentifiers, timeoutSeconds \in Timeouts,
          cancelSignal \in CancelSignals :
          findCommissionableDevicesContinuously(c, identifier, timeoutSeconds, cancelSignal)
    \/ \E c \in CallIds, identifier \in ContinuousIdentifiers,
          timeoutSeconds \in CommissionableTimeouts :
          findCommissionableDevices(c, identifier, timeoutSeconds, FALSE)
    \/ \E c \in CallIds : cancelSignalled(c)
    \/ \E message \in ContinuousMessages, netInterface \in Interfaces :
          handleDnsMessage(message, netInterface)
    \/ Events

SpecContinuous == Init /\ [][NextContinuous]_vars

\* the operational cache: announcements with different times to live,
\* goodbyes, expiry, and discovery calls with and without the cache
NextCache ==
    \/ \E c \in CallIds, name \in OperationalNames, ignoreExistingRecords \in BOOLEAN :
          findOperationalDevice(c, name, undefined, ignoreExistingRecords)
    \/ \E message \in CacheMessages, netInterface \in Interfaces :
          handleDnsMessage(message, netInterface)
    \/ \E c \in CallIds : Resume(c)
    \/ sendQueries
    \/ expireTimer
    \/ tick

\* a scanner constructed with or without IPv4
InitCache == InitScanner /\ enableIpv4 \in BOOLEAN

SpecCache == InitCache /\ [][NextCache]_vars

\* The broadcast assembly on drawn inputs: the scanner as #setQueryRecords
\* leaves it with one active entry of the given queries and known answers
\* (the calls the queries belong to are not followed)
InitBroadcast ==
    /\ operationalDeviceRecords = << >>
    /\ commissionableDeviceRecords = << >>
    /\ recordWaiters = << >>
    /\ waiterTimers = {}
    /\ periodicTimer = TRUE
    /\ closing = FALSE
    /\ closePc = "idle"
    /\ calls = [c \in CallIds |-> UnusedCall]
    /\ now = 0
    /\ sent = 0
    /\ inFlight = << >>
    /\ enableIpv4 = FALSE
    /\ \E queries \in BroadcastQueries, answers \in BroadcastAnswers :
          /\ activeAnnounceQueries =
                 << [key |-> OperationalA, val |-> [queries |-> queries, answers |-> answers]] >>
          /\ queryTimer = StartedTimer(0)
          /\ nextAnnounceIntervalSeconds = START_ANNOUNCE_INTERVAL_SECONDS

NextBroadcast ==
    \/ sendQueries
    \/ \E i \in 1..Len(inFlight), ok \in BOOLEAN : transportSendDone(i, ok)

SpecBroadcast == InitBroadcast /\ [][NextBroadcast]_vars

\* The address sorter on drawn inputs: a scanner with IPv4 that has cached
\* one device as #handleOperationalSrvRecord caches a new device from its
\* SRV record and the drawn address records, in the drawn order; the calls
\* read the cache
SorterRecords ==
    LET literals == IPv6Literals \cup IPv4Literals
        lists == UNION { [1..n -> literals] : n \in 1..MaxAddresses }
        record(lit) == IF lit \in IPv4Literals THEN ARecord(Host1, 1, lit)
                       ELSE AaaaRecord(Host1, 1, lit)
    IN  { [i \in 1..Len(list) |-> record(list[i])] :
            list \in { l \in lists : \A i, j \in 1..Len(l) : l[i] = l[j] => i = j } }

InitSorter ==
    /\ activeAnnounceQueries = << >>
    /\ queryTimer = StoppedTimer
    /\ nextAnnounceIntervalSeconds = START_ANNOUNCE_INTERVAL_SECONDS
    /\ commissionableDeviceRecords = << >>
    /\ recordWaiters = << >>
    /\ waiterTimers = {}
    /\ periodicTimer = TRUE
    /\ closing = FALSE
    /\ closePc = "idle"
    /\ calls = [c \in CallIds |-> UnusedCall]
    /\ now = 0
    /\ sent = 0
    /\ inFlight = << >>
    /\ enableIpv4 = TRUE
    /\ \E records \in SorterRecords, netInterface \in Interfaces :
          LET ips == handleIpRecords(records, Host1, netInterface)
              device == [deviceIdentifier |-> OperationalA,
                         addresses |-> OperationalAddresses(<< >>, ips, 5540),
                         discoveredAt |-> now, ttl |-> 1,
                         T |-> undefined, D |-> undefined, CM |-> undefined,
                         DT |-> undefined, ICD |-> undefined, VP |-> << >>]
          IN  operationalDeviceRecords = With(<< >>, OperationalA, device)

NextSorter ==
    \E c \in CallIds, name \in OperationalNames :
        findOperationalDevice(c, name, undefined, FALSE)

SpecSorter == InitSorter /\ [][NextSorter]_vars

\* operational discovery with callers that cancel and start again at once
NextRestart ==
    \/ \E c \in CallIds, name \in OperationalNames, timeoutSeconds \in Timeouts :
          findOperationalDevice(c, name, timeoutSeconds, FALSE)
    \/ \E c \in CallIds, name \in OperationalNames, timeoutSeconds \in Timeouts :
          restartOperationalDiscovery(c, name, timeoutSeconds)
    \/ \E name \in OperationalNames, resolvePromise \in BOOLEAN :
          cancelOperationalDeviceDiscovery(name, resolvePromise)
    \/ \E message \in ScheduleMessages, netInterface \in Interfaces :
          handleDnsMessage(message, netInterface)
    \/ \E c \in CallIds : Resume(c)
    \/ \E c \in CallIds : waiterTimeout(c)
    \/ sendQueries
    \/ tick

SpecRestart == Init /\ [][NextRestart]_vars

\* the query timer over many broadcasts: one operational discovery, its
\* response, its cancellation and close()
NextSchedule ==
    \/ \E c \in CallIds, name \in OperationalNames, timeoutSeconds \in Timeouts :
          findOperationalDevice(c, name, timeoutSeconds, FALSE)
    \/ \E name \in OperationalNames, resolvePromise \in BOOLEAN :
          cancelOperationalDeviceDiscovery(name, resolvePromise)
    \/ \E message \in ScheduleMessages, netInterface \in Interfaces :
          handleDnsMessage(message, netInterface)
    \/ \E c \in CallIds : Resume(c)
    \/ \E c \in CallIds : waiterTimeout(c)
    \/ sendQueriesWithin(MaxBroadcasts)
    \/ closeStart
    \/ closeFinish

SpecSchedule == Init /\ [][NextSchedule]_vars


---------------------------------------------------------------------------
(* Claims *)

\* C1: a findOperationalDevice or findCommissionableDevices call that waits
\* with a timeout returns at the latest when its timeout timer fires,
\* whatever other calls (also for the same queryId), responses and timers
\* come in between: the step in which the timer of a waiting call fires
\* resolves that call.
C1_TimeoutResolvesTheCall ==
    [][\A c \in CallIds :
          (calls[c].pc = "waiting" /\ waiterTimeout(c)) => calls'[c].pc = "resolved"]_vars

\* C2: when a findOperationalDevice call is waiting (it is the registered
\* waiter of its name) and a Response is processed whose answers hold an SRV
\* record (ttl > 0) of the awaited name and an AAAA record (ttl > 0) of the
\* SRV's target, the processing resolves the call and leaves the device in
\* the cache with addresses, the link-local ones with the receiving
\* interface as their scope.  Stated of every state in which the datagram
\* can be processed: s is the scanner after #handleDnsMessage.
C2_SrvWithAddressResolvesTheCall ==
    \A c \in CallIds, message \in OperationalMessages, netInterface \in Interfaces :
        LET answers == message.answers \o message.additionalRecords
            awaited == calls[c].queryId
            HasAddress(srv) ==
                \E j \in 1..Len(answers) :
                    /\ answers[j].recordType = "AAAA"
                    /\ answers[j].ttl > 0
                    /\ answers[j].name = srv.target
            s == handleDecodedMessage(Cur, message, netInterface)
            found == getOperationalDeviceRecords(s, awaited)
        IN  ( /\ calls[c].kind = "operational"
              /\ calls[c].pc = "waiting"
              /\ hasWaiter(Cur, awaited)
              /\ recordWaiters[awaited].promise = c
              /\ ~closing
              /\ ~MicrotaskPending
              /\ message.messageType = "Response"
              /\ \E i \in 1..Len(answers) :
                    /\ answers[i].recordType = "SRV"
                    /\ answers[i].ttl > 0
                    /\ answers[i].name = awaited
                    /\ HasAddress(answers[i]) )
            => /\ s.calls[c].pc = "resolved"
               /\ Len(found) = 1
               /\ Len(found[1].addresses) > 0
               /\ \A k \in 1..Len(found[1].addresses) :
                     StartsWithFe80ColonColon(found[1].addresses[k].ip.lit)
                         => found[1].addresses[k].ip.scope = netInterface

\* C3: when the processing of a response gives a commissionable device its
\* first address, every findCommissionableDevices call that is registered as
\* a waiter and whose predicate matches the device is resolved in that step.
C3_EveryMatchingWaiterResolved ==
    [][\A message \in CommissionableMessages, netInterface \in Interfaces,
         i \in 1..Len(commissionableDeviceRecords') :
          LET name == commissionableDeviceRecords'[i].key
              device == commissionableDeviceRecords'[i].val
              hadAddress ==
                  /\ MapHas(commissionableDeviceRecords, name)
                  /\ Len(MapGet(commissionableDeviceRecords, name).addresses) > 0
          IN  ( /\ ~closing
                /\ handleDnsMessage(message, netInterface)
                /\ ~hadAddress
                /\ Len(device.addresses) > 0 )
              => \A c \in CallIds :
                    ( /\ calls[c].kind = "commissionable"
                      /\ calls[c].pc = "waiting"
                      /\ hasWaiter(Cur, calls[c].queryId)
                      /\ recordWaiters[calls[c].queryId].promise = c
                      /\ MatchesIdentifier(device, calls[c].identifier) )
                    => calls'[c].pc = "resolved"]_vars

\* the step in which call c is made with ignoreExistingRecords = false while
\* the cache holds what it asks for
OperationalCacheHit(c) ==
    /\ calls[c].pc = "unused"
    /\ calls'[c].kind = "operational"
    /\ ~calls'[c].ignoreExistingRecords
    /\ calls'[c].queryId \in DOMAIN operationalDeviceRecords
    /\ Len(operationalDeviceRecords[calls'[c].queryId].addresses) > 0

CommissionableCacheHit(c) ==
    /\ calls[c].pc = "unused"
    /\ calls'[c].kind = "commissionable"
    /\ ~calls'[c].ignoreExistingRecords
    /\ \E i \in 1..Len(commissionableDeviceRecords) :
          /\ MatchesIdentifier(commissionableDeviceRecords[i].val, calls'[c].identifier)
          /\ Len(commissionableDeviceRecords[i].val.addresses) > 0

\* the call returned what the cache holds
ReturnedFromCache(c) ==
    /\ calls'[c].pc = "returned"
    /\ calls'[c].result =
          IF calls'[c].kind = "operational"
          THEN getOperationalDeviceRecords(Cur, calls'[c].queryId)
          ELSE SelectSeq(getCommissionableDeviceRecords(Cur, calls'[c].identifier),
                      LAMBDA d : Len(d.addresses) > 0)
    /\ Len(calls'[c].result) > 0

NoScannerActivity ==
    UNCHANGED << activeAnnounceQueries, recordWaiters, waiterTimers, queryTimer,
                 nextAnnounceIntervalSeconds, operationalDeviceRecords,
                 commissionableDeviceRecords, sent, inFlight >>

\* C4, as stated: a call with ignoreExistingRecords = false made while the
\* cache holds a device with an address (findOperationalDevice) or a matching
\* device with an address (findCommissionableDevices) returns at once and
\* changes nothing of the active queries, the waiters, the query timer, the
\* interval and the caches, and sends no datagram.
C4_CacheHitReturns ==
    [][\A c \in CallIds :
          (OperationalCacheHit(c) \/ CommissionableCacheHit(c))
              => ReturnedFromCache(c) /\ NoScannerActivity]_vars

\* C4, amended: the same, except that findOperationalDevice on a closing
\* scanner throws instead of returning (still without any activity).
C4_CacheHitNoActivity ==
    [][\A c \in CallIds :
          (OperationalCacheHit(c) \/ CommissionableCacheHit(c))
              => /\ NoScannerActivity
                 /\ IF closing /\ calls'[c].kind = "operational"
                    THEN calls'[c].pc = "threw"
                    ELSE ReturnedFromCache(c)]_vars

\* C4 witness: an operational and a commissionable call have both returned
\* a cached device without waiting
C4_Witness ==
    \E c1, c2 \in CallIds :
        /\ calls[c1].kind = "operational"
        /\ calls[c2].kind = "commissionable"
        /\ \A c \in {c1, c2} :
              /\ calls[c].pc = "returned"
              /\ ~calls[c].waited
              /\ ~calls[c].ignoreExistingRecords
              /\ Len(calls[c].result) > 0

\* C5: when a findOperationalDevice or findCommissionableDevices call that
\* waited returns, no active query is left under its queryId, and if no
\* active query is left at all the query timer is stopped.
C5_ReturnRemovesTheQuery ==
    [][\A c \in CallIds :
          ( /\ calls[c].kind \in { "operational", "commissionable" }
            /\ calls[c].waited
            /\ calls[c].pc # "returned"
            /\ calls'[c].pc = "returned" )
          => /\ ~MapHas(activeAnnounceQueries', calls[c].queryId)
             /\ (Len(activeAnnounceQueries') = 0 => ~queryTimer'.armed)]_vars

\* C5 witness: a call that waited has returned after a query was broadcast,
\* and nothing is active any more
C5_Witness ==
    \E c \in CallIds :
        /\ calls[c].kind \in { "operational", "commissionable" }
        /\ calls[c].waited
        /\ calls[c].pc = "returned"
        /\ sent > 0
        /\ Len(activeAnnounceQueries) = 0
        /\ ~queryTimer.armed

\* C6: within one findCommissionableDevicesContinuously call the callback is
\* never invoked twice for one deviceIdentifier, and every pass of its loop
\* invokes it for exactly the matching cached devices it has not reported
\* yet, in the order in which the cache holds them (the order of discovery).
C6_CallbackOncePerDevice ==
    [][\A c \in CallIds :
          calls'[c].kind = "continuous" =>
              LET before == calls[c].callbacks
                  after == calls'[c].callbacks
                  matching ==
                      SelectSeq(MapValues(commissionableDeviceRecords),
                             LAMBDA r : MatchesIdentifier(r, calls'[c].identifier))
                  unseen ==
                      SelectSeq(matching,
                             LAMBDA r : \A k \in 1..Len(before) : before[k] # r.deviceIdentifier)
                  new == [k \in 1..Len(unseen) |-> unseen[k].deviceIdentifier]
                  pass == /\ calls[c].pc \in { "unused", "resolved" }
                          /\ calls'[c].pc # calls[c].pc
                          /\ ~calls[c].canceled
              IN  /\ after = IF pass THEN before \o new ELSE before
                  /\ \A i, j \in 1..Len(after) : i # j => after[i] # after[j]]_vars

\* C6 witness: a continuous call has reported two devices
C6_Witness ==
    \E c \in CallIds :
        /\ calls[c].kind = "continuous"
        /\ Len(calls[c].callbacks) = 2
        /\ calls[c].callbacks[1] # calls[c].callbacks[2]

\* C7: a findCommissionableDevicesContinuously call given a timeout returns
\* once the timeout has elapsed, because every waiter it registers is bounded
\* by the remaining time: while such a call waits, its timeout timer is armed.
C7_WaiterBoundedByRemainingTime ==
    \A c \in CallIds :
        ( /\ calls[c].kind = "continuous"
          /\ calls[c].timeoutSeconds # undefined
          /\ calls[c].pc = "waiting" )
        => c \in waiterTimers

\* C8: when cancelSignal is signalled for a waiting
\* findCommissionableDevicesContinuously call, the canceled flag is set and
\* the call is resolved (and so returns); the callback is never invoked after
\* the cancellation.
C8_CancelSignalEndsTheCall ==
    [][\A c \in CallIds :
          /\ (calls[c].pc = "waiting" /\ cancelSignalled(c))
                => calls'[c].canceled /\ calls'[c].pc = "resolved"
          /\ ~calls'[c].callbackAfterCancel]_vars

\* C9: when close() completes the waiter registry is empty, every call that
\* waits with a timeout is resolved and its timer stopped, and every call
\* that waits without a timeout stays unresolved.
C9_CloseDrainsTheWaiters ==
    [][closeFinish =>
          /\ DOMAIN recordWaiters' = {}
          /\ \A c \in CallIds :
                calls[c].pc = "waiting" =>
                    IF calls[c].timeoutSeconds # undefined
                    THEN calls'[c].pc = "resolved" /\ c \notin waiterTimers'
                    ELSE calls'[c].pc = "waiting"]_vars

\* C10: once close() has completed no timer of the scanner is armed (expiry
\* timer, query timer, waiter timers) and no datagram is sent any more.
C10_NothingArmedAfterClose ==
    [][closePc = "closed" =>
          /\ ~periodicTimer'
          /\ ~queryTimer'.armed
          /\ waiterTimers' = {}
          /\ sent' = sent]_vars

\* C11: every public discovery call made after close() has completed fails
\* with ImplementationError, installs no active query and registers no
\* waiter.
C11_CallAfterCloseThrows ==
    [][\A c \in CallIds :
          ( /\ closePc = "closed"
            /\ calls[c].pc = "unused"
            /\ calls'[c].pc # "unused" )
          => /\ calls'[c].pc = "threw"
             /\ activeAnnounceQueries' = activeAnnounceQueries
             /\ recordWaiters' = recordWaiters]_vars

\* C12: every broadcast re-arms the query timer, and the delays it is armed
\* with are 1.5 s for the first broadcast after the timer was (re)started by
\* #setQueryRecords, and from then on twice the previous delay, never more
\* than 3600 s, and 3600 s again once 3600 s was reached (in tenths of a
\* second).
C12_BroadcastDelaysDouble ==
    [][sendQueriesWithin(MaxBroadcasts) =>
          /\ queryTimer'.armed
          /\ queryTimer'.delay =
                IF queryTimer.delay = 0 THEN START_ANNOUNCE_INTERVAL_SECONDS
                ELSE IF 2 * queryTimer.delay <= MAX_ANNOUNCE_INTERVAL_SECONDS
                THEN 2 * queryTimer.delay
                ELSE MAX_ANNOUNCE_INTERVAL_SECONDS
          /\ queryTimer'.delay <= MAX_ANNOUNCE_INTERVAL_SECONDS
          /\ (queryTimer.delay = MAX_ANNOUNCE_INTERVAL_SECONDS
                 => queryTimer'.delay = MAX_ANNOUNCE_INTERVAL_SECONDS)]_vars

\* C12 witness: the timer was armed with 3600 s, fired, and is armed with
\* 3600 s again, after the delays 1.5, 3, 6, ..., 3072 s
C12_Witness ==
    /\ sent = MaxBroadcasts
    /\ queryTimer.armed
    /\ queryTimer.delay = MAX_ANNOUNCE_INTERVAL_SECONDS
    /\ nextAnnounceIntervalSeconds = MAX_ANNOUNCE_INTERVAL_SECONDS
    /\ Len(activeAnnounceQueries) = 1

\* the datagrams of the broadcast that starts in the current state, in the
\* order in which #sendQueries hands them to the transport
BroadcastDatagrams ==
    sendQueriesDatagrams(FlatQueries(activeAnnounceQueries),
                         FlatAnswers(activeAnnounceQueries))

\* C13: no datagram of a broadcast is longer than MAX_MDNS_MESSAGE_SIZE,
\* whatever the active queries and the known answers are, except a datagram
\* whose first known answer does not fit into a message on its own (read
\* generously: not even next to the queries of the broadcast).
C13_NoDatagramTooLong ==
    [][sendQueries =>
          \A i \in 1..Len(BroadcastDatagrams) :
              LET datagram == BroadcastDatagrams[i]
                  allQueries == FlatQueries(activeAnnounceQueries)
              IN  \/ EncodedMessageLength(datagram) <= MAX_MDNS_MESSAGE_SIZE
                  \/ /\ Len(datagram.answers) > 0
                     /\ EncodedEmptyMessageLength(allQueries)
                            + EncodedRecordLength(datagram.answers[1])
                        > MAX_MDNS_MESSAGE_SIZE]_vars

\* every datagram of the list but the last is a TruncatedQuery, the last is
\* a Query
TruncatedButLast(datagrams) ==
    \A i \in 1..Len(datagrams) :
        datagrams[i].messageType = IF i < Len(datagrams) THEN "TruncatedQuery" ELSE "Query"

\* C14: the datagrams of every broadcast are TruncatedQuery messages followed
\* by one Query message as the last; a broadcast whose known answers all fit
\* into one message (next to the queries) is one datagram, a Query.  The
\* broadcast hands the first datagram to the transport itself and the others
\* one by one as the sends complete; what is still to be sent of a broadcast
\* ends with its Query message.
C14_TruncatedThenQuery ==
    [][/\ sendQueries =>
            LET allQueries == FlatQueries(activeAnnounceQueries)
                allAnswers == FlatAnswers(activeAnnounceQueries)
            IN  /\ Len(BroadcastDatagrams) >= 1
                /\ TruncatedButLast(BroadcastDatagrams)
                /\ (EncodedEmptyMessageLength(allQueries) + EncodedRecordsLength(allAnswers)
                        <= MAX_MDNS_MESSAGE_SIZE
                    => Len(BroadcastDatagrams) = 1)
                /\ inFlight' = IF Len(BroadcastDatagrams) > 1
                               THEN Append(inFlight, Tail(BroadcastDatagrams))
                               ELSE inFlight
       /\ \A i \in 1..Len(inFlight') :
             Len(inFlight'[i]) >= 1 /\ TruncatedButLast(inFlight'[i])]_vars

\* C14 witness: one broadcast of two datagrams has been sent whole, the
\* TruncatedQuery by #sendQueries and the Query when that send completed
C14_Witness ==
    /\ sent = 2
    /\ inFlight = << >>
    /\ queryTimer.armed
    /\ queryTimer.delay = START_ANNOUNCE_INTERVAL_SECONDS
    /\ Len(BroadcastDatagrams) = 2
    /\ BroadcastDatagrams[1].messageType = "TruncatedQuery"
    /\ BroadcastDatagrams[2].messageType = "Query"

\* C15, as stated: every datagram of a broadcast of more than one datagram
\* carries the queries of all active entries.
C15_EveryFragmentCarriesTheQueries ==
    [][sendQueries =>
          (Len(BroadcastDatagrams) > 1 =>
              \A i \in 1..Len(BroadcastDatagrams) :
                  BroadcastDatagrams[i].queries = FlatQueries(activeAnnounceQueries))]_vars

\* C15, amended: the first datagram of a broadcast carries the queries of
\* all active entries; every following datagram, the final Query message
\* included, carries no query.
C15_FirstFragmentCarriesTheQueries ==
    [][sendQueries =>
          /\ \A i \in 1..Len(BroadcastDatagrams) :
                BroadcastDatagrams[i].queries =
                    IF i = 1 THEN FlatQueries(activeAnnounceQueries) ELSE << >>
          /\ (Len(BroadcastDatagrams) > 1 =>
                 /\ Len(inFlight') = Len(inFlight) + 1
                 /\ \A k \in 1..Len(inFlight'[Len(inFlight')]) :
                       inFlight'[Len(inFlight')][k].queries = << >>)]_vars

\* C15 witness: a broadcast of three queries in three datagrams has begun;
\* the two datagrams still to be sent carry no query
C15_Witness ==
    /\ sent = 1
    /\ Len(FlatQueries(activeAnnounceQueries)) = 3
    /\ Len(BroadcastDatagrams) = 3
    /\ BroadcastDatagrams[1].queries = FlatQueries(activeAnnounceQueries)
    /\ Len(inFlight) = 1
    /\ Len(inFlight[1]) = 2
    /\ inFlight[1][1].queries = << >>
    /\ inFlight[1][2].queries = << >>
    /\ inFlight[1][2].messageType = "Query"

\* the known answers of the active entry queryId, << >> when there is none
KnownAnswersOf(aq, queryId) ==
    IF MapHas(aq, queryId) THEN MapGet(aq, queryId).answers ELSE << >>

\* #handleOperationalSrvRecord, processing message in the current state, calls
\* #setQueryRecords(name, ..., answers): the first operational SRV record of
\* the response is name's and alive, name has a waiter and no address of the
\* device is known once the records are processed (s is the scanner then)
AsksForAddresses(message, s, name) ==
    LET answers == message.answers \o message.additionalRecords
        srvAt == FindIndex({ i \in 1..Len(answers) : IsOperationalRecord(answers[i], "SRV") })
    IN  /\ ~closing
        /\ ~MicrotaskPending
        /\ message.messageType = "Response"
        /\ srvAt # 0
        /\ answers[srvAt].name = name
        /\ answers[srvAt].ttl > 0
        /\ hasWaiter(Cur, name)
        /\ \/ name \notin DOMAIN s.op
           \/ Len(s.op[name].addresses) = 0

\* C16: a #setQueryRecords call for a queryId appends exactly the known
\* answers passed to it to the known answers of the entry (after those the
\* entry held before, in order), and no other step changes the known answers
\* of an entry that stays active.  The calls that pass known answers are
\* those of the response handler: the first part is stated of every state in
\* which a response can be processed, s being the scanner after
\* #handleDnsMessage; the second part of every step that processes no
\* response.
C16_KnownAnswersAppended ==
    /\ [](\A name \in OperationalNames, message \in ScheduleMessages,
             netInterface \in Interfaces :
              LET s == handleDecodedMessage(Cur, message, netInterface)
              IN  AsksForAddresses(message, s, name) =>
                      KnownAnswersOf(s.aq, name) =
                          KnownAnswersOf(activeAnnounceQueries, name)
                          \o message.answers \o message.additionalRecords)
    /\ [][\A name \in OperationalNames :
              ( /\ MapHas(activeAnnounceQueries, name)
                /\ MapHas(activeAnnounceQueries', name)
                /\ ~\E message \in ScheduleMessages, netInterface \in Interfaces :
                       handleDnsMessage(message, netInterface) )
              => KnownAnswersOf(activeAnnounceQueries', name) =
                     KnownAnswersOf(activeAnnounceQueries, name)]_vars

\* the observable expiry of a cached device
ExpiryOf(device) == Plus(device.discoveredAt, device.ttl)

\* the records of name in a response that are alive / that are goodbyes
LiveRecords(message, name) ==
    SelectSeq(message.answers \o message.additionalRecords,
              LAMBDA r : r.name = name /\ r.ttl > 0 /\ r.recordType \in { "TXT", "SRV" })
GoodbyeRecords(message, name) ==
    SelectSeq(message.answers \o message.additionalRecords,
              LAMBDA r : r.name = name /\ r.ttl = 0)

\* message is a response with live records and no goodbye for the cached
\* operational device name, and s is the scanner after #handleDnsMessage
\* processed it in the current state
LiveRecordProcessed(message, name) ==
    /\ ~closing
    /\ ~MicrotaskPending
    /\ message.messageType = "Response"
    /\ name \in DOMAIN operationalDeviceRecords
    /\ Len(LiveRecords(message, name)) > 0
    /\ Len(GoodbyeRecords(message, name)) = 0

\* C17, as stated: processing a record with ttl > 0 for a cached device never
\* decreases the device's expiry discoveredAt + ttl.
C17_ExpiryNeverDecreases ==
    \A message \in CacheMessages, netInterface \in Interfaces, name \in OperationalNames :
        LET s == handleDecodedMessage(Cur, message, netInterface)
        IN  LiveRecordProcessed(message, name) =>
                /\ name \in DOMAIN s.op
                /\ ExpiryOf(s.op[name]) >= ExpiryOf(operationalDeviceRecords[name])

\* C17, amended: processing live records for a cached operational device
\* either leaves its expiry as it was or sets it to now + ttl of a TXT record
\* of the device in the response; so the expiry does not decrease when that
\* ttl is at least the time the entry had left, and it does decrease when the
\* TXT record handled has a shorter ttl.
C17_ExpiryFollowsTheTxtRecord ==
    \A message \in CacheMessages, netInterface \in Interfaces, name \in OperationalNames :
        LET s == handleDecodedMessage(Cur, message, netInterface)
            before == ExpiryOf(operationalDeviceRecords[name])
            live == LiveRecords(message, name)
            txtTtls == { live[i].ttl : i \in { j \in 1..Len(live) : live[j].recordType = "TXT" } }
        IN  LiveRecordProcessed(message, name) =>
                /\ name \in DOMAIN s.op
                /\ ExpiryOf(s.op[name]) \in { before } \cup { now + ttl : ttl \in txtTtls }
                /\ (\A ttl \in txtTtls : now + ttl >= before)
                       => ExpiryOf(s.op[name]) >= before

\* C17 witness: the device was cached with an address that lives until 2 and
\* a TXT record with ttl 1 was processed for it at time 0: it expires at 1
C17_Witness ==
    /\ now = 0
    /\ OperationalA \in DOMAIN operationalDeviceRecords
    /\ ExpiryOf(operationalDeviceRecords[OperationalA]) = 1
    /\ \E i \in 1..Len(operationalDeviceRecords[OperationalA].addresses) :
          operationalDeviceRecords[OperationalA].addresses[i].val.discoveredAt = 2

\* C18: after a response with a TXT record of ttl 0 for a cached operational
\* device has been processed, the device is not in the operational cache and
\* the cache lookup of findOperationalDevice does not return it, whatever
\* else the response and the known answers of the active queries hold.
\* Stated of every state in which the response can be processed, s being the
\* scanner after #handleDnsMessage.
C18_GoodbyeRemovesTheDevice ==
    \A message \in CacheMessages, netInterface \in Interfaces, name \in OperationalNames :
        LET answers == message.answers \o message.additionalRecords
            s == handleDecodedMessage(Cur, message, netInterface)
        IN  ( /\ ~closing
              /\ ~MicrotaskPending
              /\ message.messageType = "Response"
              /\ name \in DOMAIN operationalDeviceRecords
              /\ \E i \in 1..Len(answers) :
                    /\ answers[i].recordType = "TXT"
                    /\ answers[i].name = name
                    /\ answers[i].ttl = 0 )
            => /\ name \notin DOMAIN s.op
               /\ getOperationalDeviceRecords(s, name) = << >>

\* record is an A or AAAA record for target
IsAddressRecordFor(record, target) ==
    record.recordType \in { "A", "AAAA" } /\ record.name = target

\* C19: when a response with an SRV record (ttl > 0) for a cached operational
\* device is processed and neither the response nor the known answers of the
\* active queries hold an A or AAAA record for the SRV's target, then
\* afterwards an active query holds (target, AAAA), and (target, A) when IPv4
\* is enabled, and the waiter of the device, if there is one, has not been
\* finished.  Stated of every state in which the response can be processed,
\* s being the scanner after #handleDnsMessage.
C19_SrvWithoutAddressAsksForIt ==
    \A message \in CacheMessages, netInterface \in Interfaces, name \in OperationalNames :
        LET answers == message.answers \o message.additionalRecords
            known == answers \o getActiveQueryEarlierAnswers(Cur)
            s == handleDecodedMessage(Cur, message, netInterface)
            asked == FlatQueries(s.aq)
        IN  \A i \in 1..Len(answers) :
                ( /\ ~closing
                  /\ ~MicrotaskPending
                  /\ message.messageType = "Response"
                  /\ name \in DOMAIN operationalDeviceRecords
                  /\ answers[i].recordType = "SRV"
                  /\ answers[i].name = name
                  /\ answers[i].ttl > 0
                  /\ ~\E j \in 1..Len(known) : IsAddressRecordFor(known[j], answers[i].target) )
                => /\ \E k \in 1..Len(asked) : asked[k] = DnsQuery(answers[i].target, "AAAA")
                   /\ enableIpv4 =>
                          \E k \in 1..Len(asked) : asked[k] = DnsQuery(answers[i].target, "A")
                   /\ hasWaiter(Cur, name) =>
                          /\ hasWaiter(s, name)
                          /\ s.calls[recordWaiters[name].promise].pc =
                                 calls[recordWaiters[name].promise].pc


\* the rank of an address: 1 IPv6 unique-local, 2 IPv6 link-local,
\* 3 other IPv6, 4 IPv4
Rank(ip) ==
    IF ip.lit \in IPv4Literals THEN 4
    ELSE IF StartsWithFd(ip.lit) THEN 1
    ELSE IF StartsWithFe80Colon(ip.lit) THEN 2
    ELSE 3

\* the entries of rank 1, then those of rank 2, 3 and 4, each group in the
\* order it has in entries
OrderedByRank(entries) ==
    SelectSeq(entries, LAMBDA e : Rank(e.ip) = 1)
        \o SelectSeq(entries, LAMBDA e : Rank(e.ip) = 2)
        \o SelectSeq(entries, LAMBDA e : Rank(e.ip) = 3)
        \o SelectSeq(entries, LAMBDA e : Rank(e.ip) = 4)

\* the cached addresses of the device call c asked for, in the order of the
\* cache, as { ip, port }
CachedAddresses(c) ==
    LET entries == MapValues(operationalDeviceRecords[calls[c].queryId].addresses)
    IN  [i \in 1..Len(entries) |-> [ip |-> entries[i].ip, port |-> entries[i].port]]

C21_WaiterHasActiveQuery ==
    \A queryId \in DOMAIN recordWaiters : MapHas(activeAnnounceQueries, queryId)


\* the time at which the TTL of a cached operational address lapses: the
\* SRV handler stores the time of the record plus its TTL in the entry
AddressLapsesAt(entry) == entry.discoveredAt

\* C22: an expiry sweep removes an operational device only if its own
\* discoveredAt + ttl is not after now or the TTL of every one of its
\* addresses has lapsed; a device whose own TTL has not lapsed keeps every
\* address whose TTL has not lapsed and stays cached with it (the sweep is
\* applied to every reachable state)
C22_SweepKeepsLiveDevices ==
    LET swept == expire(Cur).op
    IN  \A name \in DOMAIN operationalDeviceRecords :
            LET device == operationalDeviceRecords[name]
                lapsed == device.discoveredAt + device.ttl <= now
                live == { i \in 1..Len(device.addresses) :
                            now < AddressLapsesAt(device.addresses[i].val) }
            IN  /\ name \notin DOMAIN swept => (lapsed \/ live = {})
                /\ (~lapsed /\ live # {})
                       => /\ name \in DOMAIN swept
                          /\ \A i \in live : MapHas(swept[name].addresses, device.addresses[i].key)


\* C23: after an expiry sweep the commissionable cache holds no device
\* whose record TTL has lapsed (the time of its last TXT record plus its
\* TTL, kept as expires, is not after now) and no address whose TTL has
\* lapsed (the sweep is applied to every reachable state)
C23_SweepLeavesNoLapsedCommissionable ==
    LET swept == expire(Cur).comm
    IN  \A i \in 1..Len(swept) :
            /\ now < swept[i].val.expires
            /\ \A k \in 1..Len(swept[i].val.addresses) :
                  LET entry == swept[i].val.addresses[k].val
                  IN  now < entry.discoveredAt + entry.ttl


\* C24: the timeout timer created for the waiter of call c, when it fires,
\* finishes no waiter but that of call c: every waiter of another call stays
\* registered as it is and its call is not resolved (the timer's callback is
\* applied to every reachable state in which the timer is armed)
C24_TimerFinishesOnlyItsWaiter ==
    \A c \in waiterTimers :
        LET s == waiterTimerFired(Cur, c)
        IN  \A queryId \in DOMAIN recordWaiters :
                recordWaiters[queryId].promise # c
                    => /\ queryId \in DOMAIN s.rw
                       /\ s.rw[queryId] = recordWaiters[queryId]
                       /\ s.calls[recordWaiters[queryId].promise].pc =
                              calls[recordWaiters[queryId].promise].pc


\* C25: #finishWaiter called with isUpdatedRecord = true for a waiter that
\* was registered with resolveOnUpdatedRecords = false changes nothing (the
\* waiter stays registered, its timer armed, its call unresolved); called in
\* any other way for a queryId that has a waiter it stops the waiter's
\* timer, resolves the waiter's call exactly when resolvePromise is true and
\* removes the entry (the function is applied to every reachable state)
C25_FinishWaiterContract ==
    \A queryId \in DOMAIN recordWaiters, resolvePromise \in BOOLEAN, isUpdatedRecord \in BOOLEAN :
        LET waiter == recordWaiters[queryId]
            s == finishWaiter(Cur, queryId, resolvePromise, isUpdatedRecord)
        IN  IF isUpdatedRecord /\ ~waiter.resolveOnUpdatedRecords
            THEN s = Cur
            ELSE /\ queryId \notin DOMAIN s.rw
                 /\ waiter.timer => waiter.promise \notin s.wt
                 /\ s.wt = waiterTimers \ {waiter.promise}
                 /\ s.calls[waiter.promise].pc =
                        IF resolvePromise THEN "resolved" ELSE calls[waiter.promise].pc
                 /\ calls[waiter.promise].pc # "resolved"

\* C25 happens: a continuous discovery waits with a waiter that does not
\* resolve on updated records after it has reported a device (responses
\* that refresh the device reach #finishWaiter with isUpdatedRecord = true),
\* and another call, whose waiter had a timer, was finished and has returned
C25_Witness ==
    \E c, d \in CallIds :
        /\ calls[c].kind = "continuous" /\ calls[c].pc = "waiting"
        /\ Len(calls[c].callbacks) > 0
        /\ hasWaiter(Cur, calls[c].queryId)
        /\ recordWaiters[calls[c].queryId].promise = c
        /\ ~recordWaiters[calls[c].queryId].resolveOnUpdatedRecords
        /\ calls[d].kind = "commissionable" /\ calls[d].waited /\ calls[d].pc = "returned"
        /\ d \notin waiterTimers


\* the lists of one or two queries taken from queries, and the answers a
\* caller of #setQueryRecords passes
RepeatedQueries(queries) ==
    { << queries[i] >> : i \in 1..Len(queries) }
        \cup { << queries[i], queries[j] >> : i, j \in 1..Len(queries) }
PassedAnswers == { << >>, << SrvRecord(OperationalA, 1, Host1, 5540) >> }

C28_OneQueryTimerStoppedWhenIdle ==
    /\ queryTimer.others = 0
    /\ Len(activeAnnounceQueries) = 0
           => ~queryTimer.armed /\ nextAnnounceIntervalSeconds = START_ANNOUNCE_INTERVAL_SECONDS

\* C28 happens: a call has returned and removed the last query while a
\* broadcast, sent after the interval had doubled, is still suspended in
\* transport.send
C28_Witness ==
    /\ Len(activeAnnounceQueries) = 0
    /\ Len(inFlight) > 0
    /\ sent > 0
    /\ \E c \in CallIds : calls[c].waited /\ calls[c].pc = "returned"


\* the queryIds and the query lists #setQueryRecords is applied to
SetQueryIds == { OperationalA, OperationalB }
SetQueryLists ==
    { << DnsQuery(OperationalA, "SRV") >>,
      << DnsQuery(OperationalB, "SRV") >>,
      << DnsQuery(Host1, "AAAA") >>,
      << DnsQuery(Host1, "AAAA"), DnsQuery(Host1, "A") >>,
      << DnsQuery(OperationalA, "SRV"), DnsQuery(Host2, "AAAA") >> }

QueriesUnder(aq, queryId) == IF MapHas(aq, queryId) THEN MapGet(aq, queryId).queries ELSE << >>
HasQuery(queries, query) == \E i \in 1..Len(queries) : SameQuery(queries[i], query)

RECURSIVE AnswersOfDatagrams(_)
AnswersOfDatagrams(datagrams) ==
    IF Len(datagrams) = 0 THEN << >>
    ELSE Head(datagrams).answers \o AnswersOfDatagrams(Tail(datagrams))

\* C29: in every broadcast the known answers of the datagrams, taken
\* datagram after datagram, are the known answers of all active entries in
\* their order: each appears in exactly one datagram, none is dropped and
\* none comes twice; the datagrams the broadcast has not handed to the
\* transport itself are those it sends as the sends complete
C29_KnownAnswersOnceInOrder ==
    [][sendQueries =>
          /\ AnswersOfDatagrams(BroadcastDatagrams) = FlatAnswers(activeAnnounceQueries)
          /\ Len(BroadcastDatagrams) > 1 =>
                 /\ Len(inFlight') = Len(inFlight) + 1
                 /\ << Head(BroadcastDatagrams) >> \o inFlight'[Len(inFlight')]
                        = BroadcastDatagrams]_vars

\* C29 happens: a broadcast with three known answers went out whole in
\* two datagrams, both with known answers and not the same ones
C29_Witness ==
    /\ sent = 2
    /\ inFlight = << >>
    /\ Len(FlatAnswers(activeAnnounceQueries)) = MaxAnswers
    /\ Len(BroadcastDatagrams) = 2
    /\ Len(BroadcastDatagrams[1].answers) > 0
    /\ Len(BroadcastDatagrams[2].answers) > 0
    /\ BroadcastDatagrams[1].answers # BroadcastDatagrams[2].answers


\* the datagrams of the model with the message type of a query
QueryTypes == { "Query", "TruncatedQuery" }
AsQueries ==
    { [message EXCEPT !.messageType = messageType] :
        message \in Messages \cup CacheMessages, messageType \in QueryTypes }

\* C30: a datagram that cannot be decoded, a datagram whose message type is
\* neither Response nor TruncatedResponse, and any datagram that arrives
\* after close() has started leave the caches, the active-query table, the
\* waiter registry and the timers (the calls with them) as they are (the
\* handler is applied to every reachable state)
C30_IgnoredDatagramsChangeNothing ==
    \A netInterface \in Interfaces :
        /\ handleDnsMessageReceived(Cur, << >>, netInterface) = Cur
        /\ \A message \in AsQueries :
              handleDnsMessageReceived(Cur, << message >>, netInterface) = Cur
        /\ closing =>
              \A message \in Messages \cup CacheMessages :
                  handleDnsMessageReceived(Cur, << message >>, netInterface) = Cur

\* C30 happens: close() has started while a call waits for a device, and
\* the response that would resolve the call, were the scanner not closing,
\* arrives; the same records sent as a query would change the state if
\* they were handled
C30_Witness ==
    /\ closing
    /\ closePc = "awaiting"
    /\ \E c \in CallIds : calls[c].pc = "waiting" /\ calls[c].queryId = OperationalA
    /\ handleDecodedMessage(Cur, OperationalFull, "eth0") # Cur

---------------------------------------------------------------------------
(* The message correlator under mixed traffic: operational and
   commissionable discovery calls side by side, records of one device
   spread over several responses, A records, incomplete TXT records *)

\* the addresses of host h1 alone, one A and one AAAA record
AddressesOfHost1 ==
    Response(<< ARecord(Host1, 1, "10.0.0.1"), AaaaRecord(Host1, 1, "fd00::1") >>)
\* the TXT records of two operational devices in one response
OperationalTwoTxt ==
    Response(<< TxtRecord(OperationalA, 1, TxtOperational),
                TxtRecord(OperationalB, 1, TxtOperational) >>)
\* the SRV record of a commissionable device alone
CommissionableSrv == Response(<< SrvRecord(CommissionableA, 1, Host1, 5540) >>)
\* commissionable TXT records that lack the D key, and the CM key
CommissionableWithoutD ==
    Response(<< TxtRecord(CommissionableA, 1,
                          << TxtItem("CM", << 2 >>), TxtItem("VP", << 1, 1 >>) >>) >>)
CommissionableWithoutCM ==
    Response(<< TxtRecord(CommissionableA, 1,
                          << TxtItem("D", << 3840 >>), TxtItem("VP", << 1, 1 >>) >>) >>)

CorrelatorMessages ==
    { OperationalSrv, OperationalTwoTxt, AddressesOfHost1, CommissionableTxt,
      CommissionableSrv, CommissionableWithoutD, CommissionableWithoutCM }

NextCorrelator ==
    \/ \E c \in CallIds, name \in OperationalNames :
          findOperationalDevice(c, name, 1, FALSE)
    \/ \E c \in CallIds, identifier \in Identifiers :
          findCommissionableDevices(c, identifier, 1, FALSE)
    \/ \E message \in CorrelatorMessages, netInterface \in Interfaces :
          handleDnsMessage(message, netInterface)
    \/ \E c \in CallIds : Resume(c)
    \/ \E c \in CallIds : waiterTimeout(c)

SpecCorrelator == InitCache /\ [][NextCorrelator]_vars

---------------------------------------------------------------------------
(* C31 *)

\* record is a TXT record of a commissionable device that can be cached:
\* its name is under _matterc._udp.local, it is alive, and D and CM parse
IsValidCommissionableTxt(record) ==
    /\ record.recordType = "TXT"
    /\ EndsWith(record.name, MATTER_COMMISSION_SERVICE_QNAME)
    /\ record.ttl > 0
    /\ Len(parseCommissionableTxtRecord(record)) > 0

\* C31: a response whose answers hold a valid commissionable TXT record (name
\* under _matterc._udp.local, D and CM present, ttl > 0) and no record with a
\* name under _matter._tcp.local leaves a commissionable cache entry of that
\* name that carries the record's D and was discovered now, whatever the
\* active queries and their known answers are.  Stated of every state in
\* which the response can be processed, s being the scanner after
\* #handleDnsMessage.
C31_CommissionableTxtIsCached ==
    \A message \in CorrelatorMessages, netInterface \in Interfaces :
        LET answers == message.answers \o message.additionalRecords
            s == handleDnsMessageReceived(Cur, << message >>, netInterface)
        IN  \A i \in 1..Len(answers) :
                ( /\ ~closing
                  /\ ~MicrotaskPending
                  /\ message.messageType = "Response"
                  /\ IsValidCommissionableTxt(answers[i])
                  /\ ~\E j \in 1..Len(answers) :
                        EndsWith(answers[j].name, MATTER_SERVICE_QNAME) )
                => /\ MapHas(s.comm, answers[i].name)
                   /\ MapGet(s.comm, answers[i].name).D =
                          parseCommissionableTxtRecord(answers[i])[1].D

---------------------------------------------------------------------------
(* C32 *)

\* C32: every TXT answer of a response whose name is under _matter._tcp.local
\* updates the operational cache entry of exactly that name: with ttl 0 the
\* entry is gone afterwards, with ttl > 0 the entry exists afterwards, was
\* discovered now with the record's ttl and carries the record's TXT data
\* (here its T key).  Stated of every state in which the response can be
\* processed, s being the scanner after #handleDnsMessage.
C32_EveryOperationalTxtIsApplied ==
    \A message \in CorrelatorMessages, netInterface \in Interfaces :
        LET answers == message.answers \o message.additionalRecords
            s == handleDnsMessageReceived(Cur, << message >>, netInterface)
        IN  \A i \in 1..Len(answers) :
                ( /\ ~closing
                  /\ ~MicrotaskPending
                  /\ message.messageType = "Response"
                  /\ IsOperationalRecord(answers[i], "TXT") )
                => IF answers[i].ttl = 0
                   THEN answers[i].name \notin DOMAIN s.op
                   ELSE /\ answers[i].name \in DOMAIN s.op
                        /\ s.op[answers[i].name].discoveredAt = now
                        /\ s.op[answers[i].name].ttl = answers[i].ttl
                        /\ s.op[answers[i].name].T = parseTxtRecord(answers[i]).T

---------------------------------------------------------------------------
(* C33 *)

\* record is a live TXT record of a commissionable device without D or CM
IsIncompleteCommissionableTxt(record) ==
    /\ record.recordType = "TXT"
    /\ EndsWith(record.name, MATTER_COMMISSION_SERVICE_QNAME)
    /\ record.ttl > 0
    /\ parseTxtRecord(record).D = undefined \/ parseTxtRecord(record).CM = undefined

\* the queries of type ANY the active queries hold
AnyQueries(s) ==
    { FlatQueries(s.aq)[i] : i \in { j \in 1..Len(FlatQueries(s.aq)) :
                                      FlatQueries(s.aq)[j].recordType = "ANY" } }

\* C33: a response that consists of live commissionable TXT records lacking
\* D or CM leaves the commissionable cache as it was (a cached valid record
\* of the same name keeps its data and its addresses) and installs no
\* follow-up query of type ANY.  Stated of every state in which the response
\* can be processed, s being the scanner after #handleDnsMessage.
C33_IncompleteTxtIsDiscarded ==
    \A message \in CorrelatorMessages, netInterface \in Interfaces :
        LET answers == message.answers \o message.additionalRecords
            s == handleDnsMessageReceived(Cur, << message >>, netInterface)
        IN  ( /\ ~closing
              /\ ~MicrotaskPending
              /\ message.messageType = "Response"
              /\ Len(answers) > 0
              /\ \A i \in 1..Len(answers) : IsIncompleteCommissionableTxt(answers[i]) )
            => /\ s.comm = commissionableDeviceRecords
               /\ AnyQueries(s) = AnyQueries(Cur)

\* C33 witness: the valid record of commissionable device cA is cached with
\* an address while a commissionable discovery is waiting with its query
\* active, and a TXT record for cA without D can arrive
C33_Witness ==
    /\ ~closing
    /\ ~MicrotaskPending
    /\ CommissionableWithoutD \in CorrelatorMessages
    /\ IsIncompleteCommissionableTxt(CommissionableWithoutD.answers[1])
    /\ MapHas(commissionableDeviceRecords, CommissionableA)
    /\ Len(MapGet(commissionableDeviceRecords, CommissionableA).addresses) > 0
    /\ \E c \in CallIds : calls[c].pc = "waiting" /\ calls[c].kind = "commissionable"
    /\ Len(findCommissionableQueryIdentifier(
               Cur, << >>, MapGet(commissionableDeviceRecords, CommissionableA))) > 0

---------------------------------------------------------------------------
(* C34 *)

\* C34: when a response creates the commissionable cache entry of a name from
\* a TXT record and leaves it without an address, and some active query
\* matches the stored record in the lookup order of
\* #findCommissionableQueryIdentifier for that name (the query of the
\* instance id first), then afterwards an active query holds the query
\* (name, ANY).  Stated of every state in which the response can be
\* processed, s being the scanner after #handleDnsMessage.
C34_FollowUpQueryIsInstalled ==
    \A message \in CorrelatorMessages, netInterface \in Interfaces :
        LET answers == message.answers \o message.additionalRecords
            s == handleDnsMessageReceived(Cur, << message >>, netInterface)
        IN  \A i \in 1..Len(answers) :
                ( /\ ~closing
                  /\ ~MicrotaskPending
                  /\ message.messageType = "Response"
                  /\ IsValidCommissionableTxt(answers[i])
                  /\ ~MapHas(commissionableDeviceRecords, answers[i].name)
                  /\ MapHas(s.comm, answers[i].name)
                  /\ Len(MapGet(s.comm, answers[i].name).addresses) = 0
                  /\ Len(findCommissionableQueryIdentifier(
                             Cur, answers[i].name, MapGet(s.comm, answers[i].name))) > 0 )
                => HasQuery(FlatQueries(s.aq), DnsQuery(answers[i].name, "ANY"))

---------------------------------------------------------------------------
(* C35 *)

\* the TXT and the SRV record of a commissionable device in one response,
\* without an address
CommissionableWithoutAddress ==
    Response(<< TxtRecord(CommissionableA, 1, TxtVendor1),
                SrvRecord(CommissionableA, 1, Host1, 5540) >>)

\* the call whose waiter is registered under queryId
WaitingCall(s, queryId) == s.rw[queryId].promise

\* the addresses handleIpRecords takes from response message for target
AddressesIn(message, target, netInterface) ==
    LET ips == handleIpRecords(message.answers \o message.additionalRecords, target,
                               netInterface)
    IN  { ips[i].value : i \in 1..Len(ips) }

\* C35, operational devices: while a waiter for the device is pending and the
\* device has no cached address, a response with the device's SRV record
\* (alone, or with its TXT record) and no address, followed by a response
\* with only the A/AAAA records of the SRV target, leaves the device cached
\* with those addresses and the waiter's promise resolved.  s1 is the scanner
\* after the first response, s2 after the second.
C35_OperationalRecordsAreAssembled ==
    \A first \in { OperationalSrv, OperationalWithoutAddress }, netInterface \in Interfaces,
       name \in OperationalNames :
        LET s1 == handleDnsMessageReceived(Cur, << first >>, netInterface)
            s2 == handleDnsMessageReceived(s1, << AddressesOfHost1 >>, netInterface)
        IN  ( /\ ~closing
              /\ ~MicrotaskPending
              /\ hasWaiter(Cur, name)
              /\ name \in DOMAIN operationalDeviceRecords
                    => Len(operationalDeviceRecords[name].addresses) = 0 )
            => /\ name \in DOMAIN s2.op
               /\ \A ip \in AddressesIn(AddressesOfHost1, Host1, netInterface) :
                     MapHas(s2.op[name].addresses, ip)
               /\ ~hasWaiter(s2, name)
               /\ s2.calls[WaitingCall(Cur, name)].pc = "resolved"

\* C35, commissionable devices: the same for a commissionable device and the
\* waiter of a findCommissionableDevices call whose identifier the device
\* matches (its instance id, or no identifier at all)
C35_CommissionableRecordsAreAssembled ==
    \A netInterface \in Interfaces, identifier \in Identifiers :
        LET queryId == buildCommissionableQueryIdentifier(identifier)
            s1 == handleDnsMessageReceived(Cur, << CommissionableWithoutAddress >>,
                                           netInterface)
            s2 == handleDnsMessageReceived(s1, << AddressesOfHost1 >>, netInterface)
        IN  ( /\ ~closing
              /\ ~MicrotaskPending
              /\ hasWaiter(Cur, queryId)
              /\ MapHas(commissionableDeviceRecords, CommissionableA)
                    => Len(MapGet(commissionableDeviceRecords, CommissionableA).addresses) = 0 )
            => /\ MapHas(s2.comm, CommissionableA)
               /\ \A ip \in AddressesIn(AddressesOfHost1, Host1, netInterface) :
                     MapHas(MapGet(s2.comm, CommissionableA).addresses, ip)
               /\ ~hasWaiter(s2, queryId)
               /\ s2.calls[WaitingCall(Cur, queryId)].pc = "resolved"

\* C35: records of one device that arrive in separate responses are
\* assembled: if, while a caller's waiter for the device is pending, the SRV
\* (and TXT) record arrives in one response without addresses and the A/AAAA
\* records of the SRV target arrive in a later response without SRV record,
\* then after the later response the cached device holds those addresses and
\* the waiter is resolved; for operational and for commissionable devices
C35_RecordsAreAssembled ==
    C35_OperationalRecordsAreAssembled /\ C35_CommissionableRecordsAreAssembled

---------------------------------------------------------------------------
(* C36 *)

\* the IP literals of the addresses a device holds
LiteralsOf(device) == { device.addresses[i].key.lit : i \in 1..Len(device.addresses) }

\* the IP literals of all cached addresses, operational and commissionable
CachedLiterals ==
    UNION ( { LiteralsOf(operationalDeviceRecords[name]) :
                name \in DOMAIN operationalDeviceRecords }
            \cup { LiteralsOf(commissionableDeviceRecords[i].val) :
                     i \in 1..Len(commissionableDeviceRecords) } )

\* C36: when IPv4 is not enabled, in every reachable state no cached device,
\* operational or commissionable, holds an address taken from an A record
\* (an IPv4 literal), and no active query holds a query of record type A
C36_NoIpv4WhenDisabled ==
    ~enableIpv4 =>
        /\ CachedLiterals \cap IPv4Literals = {}
        /\ \A i \in 1..Len(FlatQueries(activeAnnounceQueries)) :
              FlatQueries(activeAnnounceQueries)[i].recordType # "A"

\* C36 witness: without IPv4 the response with the A and the AAAA record of
\* host h1 has been processed for an operational device whose address query
\* is still active: the AAAA address of that response is cached
C36_Witness ==
    /\ ~enableIpv4
    /\ AddressesOfHost1 \in CorrelatorMessages
    /\ \E i \in 1..Len(AddressesOfHost1.answers) :
          AddressesOfHost1.answers[i].recordType = "A"
    /\ OperationalA \in DOMAIN operationalDeviceRecords
    /\ "fd00::1" \in LiteralsOf(operationalDeviceRecords[OperationalA])
    /\ HasQuery(FlatQueries(activeAnnounceQueries), DnsQuery(Host1, "AAAA"))

---------------------------------------------------------------------------
(* C37 *)

\* C37: a transport.send that fails during a broadcast ends that broadcast
\* and changes nothing else: the query timer #sendQueries armed for the next
\* interval before its first send stays as it is, nextAnnounceIntervalSeconds
\* stays advanced, and the active queries stay, so the timer broadcasts them
\* again without a new #setQueryRecords
C37_FailedSendKeepsTheSchedule ==
    [][ (\E i \in 1..Len(inFlight) : transportSendDone(i, FALSE))
        => /\ queryTimer' = queryTimer
           /\ nextAnnounceIntervalSeconds' = nextAnnounceIntervalSeconds
           /\ activeAnnounceQueries' = activeAnnounceQueries
           /\ ( /\ queryTimer.armed
                /\ queryTimer.delay # 0 )
              => /\ queryTimer'.armed
                 /\ nextAnnounceIntervalSeconds' =
                        Min(queryTimer.delay * 2, MAX_ANNOUNCE_INTERVAL_SECONDS) ]_vars

\* C37 witness: the active queries need two datagrams, the broadcast after
\* the last #setQueryRecords sent the first one and the send of the second
\* failed; the timer waits for the interval of that broadcast, the next
\* interval is twice as long
C37_Witness ==
    /\ ~closing
    /\ Len(sendQueriesDatagrams(FlatQueries(activeAnnounceQueries),
                                FlatAnswers(activeAnnounceQueries))) = 2
    /\ sent = 1
    /\ inFlight = << >>
    /\ queryTimer = StartedTimer(START_ANNOUNCE_INTERVAL_SECONDS)
    /\ nextAnnounceIntervalSeconds = 2 * START_ANNOUNCE_INTERVAL_SECONDS

---------------------------------------------------------------------------
(* C38 *)

\* C38, operational devices: after a response with a TXT or an SRV record of
\* an operational device that leaves the device cached without an address,
\* an active query asks for the AAAA record of the device's SRV target
C38_OperationalAddressQueryInFlight ==
    \A message \in CorrelatorMessages, netInterface \in Interfaces :
        LET answers == message.answers \o message.additionalRecords
            s == handleDnsMessageReceived(Cur, << message >>, netInterface)
        IN  \A i \in 1..Len(answers) :
                ( /\ ~closing
                  /\ ~MicrotaskPending
                  /\ message.messageType = "Response"
                  /\ answers[i].ttl > 0
                  /\ IsOperationalRecord(answers[i], "TXT")
                        \/ IsOperationalRecord(answers[i], "SRV")
                  /\ answers[i].name \in DOMAIN s.op
                  /\ Len(s.op[answers[i].name].addresses) = 0 )
                => \E j \in 1..Len(FlatQueries(s.aq)) :
                      /\ FlatQueries(s.aq)[j].recordType = "AAAA"
                      /\ answers[i].recordType = "SRV"
                            => FlatQueries(s.aq)[j].name = answers[i].target

\* C38, commissionable devices: the same for a TXT or an SRV record of a
\* commissionable device
C38_CommissionableAddressQueryInFlight ==
    \A message \in CorrelatorMessages, netInterface \in Interfaces :
        LET answers == message.answers \o message.additionalRecords
            s == handleDnsMessageReceived(Cur, << message >>, netInterface)
        IN  \A i \in 1..Len(answers) :
                ( /\ ~closing
                  /\ ~MicrotaskPending
                  /\ message.messageType = "Response"
                  /\ answers[i].ttl > 0
                  /\ answers[i].recordType \in { "TXT", "SRV" }
                  /\ EndsWith(answers[i].name, MATTER_COMMISSION_SERVICE_QNAME)
                  /\ MapHas(s.comm, answers[i].name)
                  /\ s.comm # commissionableDeviceRecords
                  /\ Len(MapGet(s.comm, answers[i].name).addresses) = 0 )
                => \E j \in 1..Len(FlatQueries(s.aq)) :
                      /\ FlatQueries(s.aq)[j].recordType \in { "AAAA", "ANY" }
                      /\ answers[i].recordType = "SRV"
                            => FlatQueries(s.aq)[j] = DnsQuery(answers[i].target, "AAAA")

\* C38: after a cache update by a TXT or an SRV record, operational or
\* commissionable, that leaves the updated device without an address, an
\* address query for the device is active: one was active already or the
\* response handler installed it in the same step.  Stated of every state in
\* which the response can be processed, s being the scanner after
\* #handleDnsMessage.
C38_AddressQueryInFlight ==
    C38_OperationalAddressQueryInFlight /\ C38_CommissionableAddressQueryInFlight

---------------------------------------------------------------------------
(* C39 *)

\* C39: after a response with an SRV record (ttl > 0) of an operational
\* device has been processed, the cache holds an entry for the record's
\* name, also when the device was not cached before and neither the response
\* nor the known answers hold an A/AAAA record for the SRV target.  Stated of
\* every state in which the response can be processed, s being the scanner
\* after #handleDnsMessage; the SRV record is the first operational one of
\* the response, the one #handleOperationalRecords handles.
C39_SrvCreatesTheEntry ==
    \A message \in CorrelatorMessages, netInterface \in Interfaces :
        LET answers == message.answers \o message.additionalRecords
            s == handleDnsMessageReceived(Cur, << message >>, netInterface)
            srvAt == FindIndex({ i \in 1..Len(answers) :
                                   IsOperationalRecord(answers[i], "SRV") })
        IN  ( /\ ~closing
              /\ ~MicrotaskPending
              /\ message.messageType = "Response"
              /\ srvAt # 0
              /\ answers[srvAt].ttl > 0 )
            => answers[srvAt].name \in DOMAIN s.op

---------------------------------------------------------------------------
(* C40 *)

\* C40: every device a findCommissionableDevices call has returned, from the
\* cache right away or after waiting, has at least one address
C40_ReturnedDevicesHaveAnAddress ==
    \A c \in CallIds :
        ( /\ calls[c].kind = "commissionable"
          /\ calls[c].pc = "returned" )
        => \A i \in 1..Len(calls[c].result) : Len(calls[c].result[i].addresses) > 0

====
